---- MODULE Spec2Model ----
(***************************************************************************)
(* Model of the character-state core of AmongEqualsRLServer:               *)
(* PersonalityTraits, ExperienceLevels, TraumaMemory / TraumaState,        *)
(* RelationshipDimensions / RelationshipMatrix and the NPCState            *)
(* integrator (src/src/models).                                            *)
(*                                                                         *)
(* Numbers.  The Python code computes with floats.  Here every real is a   *)
(* fixed-point integer counted in units of 1/Scale (0.3 is 3000), sums are *)
(* exact and every product is rounded to the nearest unit (Mul).  The      *)
(* rounding noise of IEEE doubles is not represented.                      *)
(*                                                                         *)
(* Exceptions.  A Python call that raises leaves behind whatever it had    *)
(* already assigned.  Each method is an operator that returns the new      *)
(* value of the object together with the way the call ended                *)
(* ("ok", "ValueError", "TypeError"), so that an action composes the calls *)
(* of a handler in program order and keeps the partial effects of a call   *)
(* that raised later.                                                      *)
(***************************************************************************)
EXTENDS Integers, Sequences, FiniteSets, TLC

\* ------------------------------------------------------------------------
\* Fixed-point arithmetic
\* ------------------------------------------------------------------------

\* Units per 1.0.
Scale == 100 * 100

\* n / d rounded to the nearest integer (halves upward), d > 0.
RoundDiv(n, d) == (2 * n + d) \div (2 * d)

\* The product of two fixed-point numbers.
Mul(a, b) == RoundDiv(a * b, Scale)

Max(a, b) == IF a >= b THEN a ELSE b

Min(a, b) == IF a <= b THEN a ELSE b

\* f"{x:.3f}": three decimals, i.e. units of Scale/1000.
Fmt3(x) == RoundDiv(x, Scale \div 1000)

\* ------------------------------------------------------------------------
\* State
\* ------------------------------------------------------------------------

VARIABLES
    memory,       \* a TraumaMemory object built directly by its constructor:
                  \* <<>> before, <<m>> after
    personality,  \* NPCState.personality: the instance attributes (__dict__)
    experience,   \* NPCState.experience: [levels, experience_history]
    trauma,       \* NPCState.trauma: [memories, last_healing_activity,
                  \* natural_healing_rate]
    relationships,\* NPCState.relationships: partner id -> RelationshipDimensions
    physical,     \* [health, hunger_level, energy_level]
    game,         \* [npc_id, name, age, days_alive, last_action,
                  \* last_action_success]
    persist,      \* what to_dict / from_dict have produced from the NPCState:
                  \* [stage, record, other, outcome, lost, touched]
    call,         \* the last call made and how it ended
    world,        \* the WorldState parts: [governance, social_climate]
    steps         \* number of calls made so far

npc == <<personality, experience, trauma, relationships, physical, game>>

vars == <<memory, personality, experience, trauma, relationships, physical,
          game, persist, world, call, steps>>

\* A call record: operation, partner argument, name argument (category,
\* dimension, trait, action, ...), numeric argument, success flag, how the call
\* ended ("ok", "ValueError", "TypeError") and the kind of value returned.
Call(op, target, name, amount, success, outcome, ret) ==
    [op |-> op, target |-> target, name |-> name, amount |-> amount,
     success |-> success, outcome |-> outcome, ret |-> ret]

NoCall == Call("init", "", "", 0, TRUE, "ok", "None")

\* WorldState(): the governance and social climate a new world starts with.
\* Of Governance the proposals are kept, of SocialClimate the mood, the
\* cooperation and conflict levels and the event log.
WorldState ==
    [governance |-> [active_proposals |-> <<>>],
     social_climate |-> [overall_mood |-> 5000, cooperation_level |-> 5000,
                         conflict_level |-> 3000, recent_events |-> <<>>]]

\* Nothing serialized yet.
NoPersist ==
    [stage |-> "none", record |-> <<>>, other |-> <<>>, outcome |-> "ok",
     lost |-> "", touched |-> FALSE]

\* ------------------------------------------------------------------------
\* TraumaMemory (trauma.py)
\* ------------------------------------------------------------------------

TraumaMemory(event_type, original_impact, current_impact, age_when_occurred, description, related_npcs) ==
    [event_type |-> event_type,
     original_impact |-> original_impact,
     current_impact |-> current_impact,
     age_when_occurred |-> age_when_occurred,
     description |-> description,
     related_npcs |-> related_npcs,
     healing_activities |-> <<>>]

\* TraumaMemory.__post_init__: TRUE when the constructor raises ValueError.
post_init_raises(original_impact, current_impact, age_when_occurred) ==
    \/ original_impact < 0
    \/ current_impact < 0
    \/ current_impact > original_impact
    \/ age_when_occurred < 0

\* Band limits and scar fractions of scar_threshold.
MinorTraumaLimit == 5000

ModerateTraumaLimit == 10000

ModerateScarFraction == 1000

SevereScarFraction == 3000

\* scar_threshold as it would be with the 0.5 < original <= 1.0 band left out:
\* every trauma above 0.5 keeps 30%.
scar_threshold_without_moderate_band(m) ==
    IF m.original_impact <= MinorTraumaLimit THEN 0
    ELSE Mul(m.original_impact, SevereScarFraction)

scar_threshold(m) ==
    IF m.original_impact <= MinorTraumaLimit THEN 0
    ELSE IF m.original_impact <= ModerateTraumaLimit
         THEN Mul(m.original_impact, ModerateScarFraction)
         ELSE Mul(m.original_impact, SevereScarFraction)

is_fully_healed(m) == m.current_impact <= scar_threshold(m)

\* apply_healing stopping one unit above the scar threshold.
apply_healing_stopping_above_the_scar(m, healing_amount, healing_source) ==
    IF healing_amount < 0
    THEN [m |-> m, outcome |-> "ValueError"]
    ELSE LET old_impact == m.current_impact
             new_impact == IF m.current_impact <= scar_threshold(m)
                           THEN m.current_impact
                           ELSE Max(scar_threshold(m) + 1,
                                    m.current_impact - healing_amount)
             actual_healing == old_impact - new_impact
         IN [m |-> [m EXCEPT
                      !.current_impact = new_impact,
                      !.healing_activities =
                          IF actual_healing > 0
                          THEN Append(@, [source |-> healing_source,
                                          healed |-> Fmt3(actual_healing)])
                          ELSE @],
             outcome |-> "ok"]

\* TraumaMemory.apply_healing: [m |-> the memory after the call, outcome].
apply_healing(m, healing_amount, healing_source) ==
    IF healing_amount < 0
    THEN [m |-> m, outcome |-> "ValueError"]
    ELSE LET old_impact == m.current_impact
             new_impact == Max(scar_threshold(m), m.current_impact - healing_amount)
             actual_healing == old_impact - new_impact
         IN [m |-> [m EXCEPT
                      !.current_impact = new_impact,
                      !.healing_activities =
                          IF actual_healing > 0
                          THEN Append(@, [source |-> healing_source,
                                          healed |-> Fmt3(actual_healing)])
                          ELSE @],
             outcome |-> "ok"]

\* Parts of a unit in which a healing amount can be given.
Finer == 10

\* apply_healing called with an amount given in tenths of a unit.  The impact
\* is held in whole units, so current_impact - healing_amount is rounded to
\* the nearest unit, as the float subtraction rounds to the nearest float: an
\* amount below half a unit leaves current_impact as it was.
apply_healing_of(m, fine_amount, healing_source) ==
    IF fine_amount < 0
    THEN [m |-> m, outcome |-> "ValueError"]
    ELSE apply_healing(m, RoundDiv(fine_amount, Finer), healing_source)

\* ------------------------------------------------------------------------
\* PersonalityTraits (personality.py)
\* ------------------------------------------------------------------------

\* The dataclass fields, in declaration order.
TraitNames ==
    <<"greed", "sociability", "laziness", "ambition", "forgiveness", "courage",
      "analytical", "impulsiveness">>

Traits == {TraitNames[i] : i \in 1..Len(TraitNames)}

\* Attributes every instance finds on its class: the methods of
\* PersonalityTraits.  hasattr() is true of them as it is of the fields.
PersonalityClassAttrs ==
    {"__post_init__", "generate_random", "from_archetype", "get_trait",
     "set_trait", "get_dominant_traits", "get_weak_traits",
     "get_personality_summary", "to_dict", "from_dict", "to_json", "from_json"}

\* PersonalityTraits(**kw): unspecified traits default to 0.5.
DefaultTrait == 5000

PersonalityTraits(kw) ==
    [t \in Traits |-> IF t \in DOMAIN kw THEN kw[t] ELSE DefaultTrait]

\* PersonalityTraits.from_archetype, the archetypes table.
Archetypes ==
    [greedy_loner |->
        PersonalityTraits([greed |-> 9000, sociability |-> 2000,
                           ambition |-> 3000, forgiveness |-> 1000]),
     social_leader |->
        PersonalityTraits([greed |-> 2000, sociability |-> 9000,
                           ambition |-> 8000, forgiveness |-> 7000]),
     lazy_follower |->
        PersonalityTraits([greed |-> 4000, sociability |-> 6000,
                           laziness |-> 9000, ambition |-> 1000]),
     analytical_planner |->
        PersonalityTraits([greed |-> 3000, sociability |-> 4000,
                           analytical |-> 9000, impulsiveness |-> 1000]),
     traumatized_survivor |->
        PersonalityTraits([greed |-> 7000, sociability |-> 2000,
                           courage |-> 3000, forgiveness |-> 2000]),
     balanced_human |-> PersonalityTraits(<<>>)]

\* hasattr(self, name) on a PersonalityTraits instance p.
personality_hasattr(p, name) ==
    name \in DOMAIN p \/ name \in PersonalityClassAttrs

\* PersonalityTraits.get_trait: how the call ends and what kind of value it
\* returns (a trait value, or the bound method a method name resolves to).
get_trait(p, trait_name) ==
    IF ~personality_hasattr(p, trait_name)
    THEN [outcome |-> "ValueError", ret |-> "None", value |-> 0]
    ELSE IF trait_name \in DOMAIN p
         THEN [outcome |-> "ok", ret |-> "float", value |-> p[trait_name]]
         ELSE [outcome |-> "ok", ret |-> "bound_method", value |-> 0]

\* PersonalityTraits.set_trait: [p |-> the instance after the call, outcome].
\* setattr() on a name that is not a field adds an instance attribute.
set_trait(p, trait_name, value) ==
    IF ~personality_hasattr(p, trait_name)
    THEN [p |-> p, outcome |-> "ValueError"]
    ELSE IF ~(0 <= value /\ value <= Scale)
         THEN [p |-> p, outcome |-> "ValueError"]
         ELSE [p |-> [n \in DOMAIN p \cup {trait_name} |->
                         IF n = trait_name THEN value ELSE p[n]],
               outcome |-> "ok"]

\* ------------------------------------------------------------------------
\* ExperienceLevels (experience.py)
\* ------------------------------------------------------------------------

\* _get_experience_dict: the categories, in declaration order.
CategoryNames ==
    <<"leadership", "negotiation", "resource_management", "crafting",
      "social_manipulation", "survival", "combat">>

Categories == {CategoryNames[i] : i \in 1..Len(CategoryNames)}

\* ExperienceLevels(): every level 0.0, empty history.
ExperienceLevels ==
    [levels |-> [c \in Categories |-> 0], experience_history |-> <<>>]

DiminishingRate == 3000

significant_threshold == 500

\* gain_experience as it would be without the check of the amount's sign.
gain_experience_without_amount_check(e, category, amount, source, success) ==
    IF category \notin Categories
    THEN [e |-> e, outcome |-> "ValueError", significant |-> FALSE]
    ELSE LET old_level == e.levels[category]
             diminishing_factor == Scale - Mul(old_level, DiminishingRate)
             actual_gain == Mul(amount, diminishing_factor)
             new_level == Min(Scale, old_level + actual_gain)
         IN [e |-> [levels |-> [e.levels EXCEPT ![category] = new_level],
                    experience_history |->
                        Append(e.experience_history,
                               [category |-> category,
                                amount_attempted |-> amount,
                                amount_gained |-> new_level - old_level,
                                source |-> source,
                                success |-> success,
                                old_level |-> old_level,
                                new_level |-> new_level])],
             outcome |-> "ok",
             significant |-> (new_level - old_level) >= significant_threshold]

\* gain_experience as it would be with the sign of the diminishing term
\* reversed: the factor grows with the level.
gain_experience_with_growing_factor(e, category, amount, source, success) ==
    IF category \notin Categories
    THEN [e |-> e, outcome |-> "ValueError", significant |-> FALSE]
    ELSE IF amount < 0
    THEN [e |-> e, outcome |-> "ValueError", significant |-> FALSE]
    ELSE LET old_level == e.levels[category]
             diminishing_factor == Scale + Mul(old_level, DiminishingRate)
             actual_gain == Mul(amount, diminishing_factor)
             new_level == Min(Scale, old_level + actual_gain)
         IN [e |-> [levels |-> [e.levels EXCEPT ![category] = new_level],
                    experience_history |->
                        Append(e.experience_history,
                               [category |-> category,
                                amount_attempted |-> amount,
                                amount_gained |-> new_level - old_level,
                                source |-> source,
                                success |-> success,
                                old_level |-> old_level,
                                new_level |-> new_level])],
             outcome |-> "ok",
             significant |-> (new_level - old_level) >= significant_threshold]

\* gain_experience judging significance by the level reached instead of the
\* realized delta.
gain_experience_judging_the_level(e, category, amount, source, success) ==
    IF category \notin Categories
    THEN [e |-> e, outcome |-> "ValueError", significant |-> FALSE]
    ELSE IF amount < 0
    THEN [e |-> e, outcome |-> "ValueError", significant |-> FALSE]
    ELSE LET old_level == e.levels[category]
             diminishing_factor == Scale - Mul(old_level, DiminishingRate)
             actual_gain == Mul(amount, diminishing_factor)
             new_level == Min(Scale, old_level + actual_gain)
         IN [e |-> [levels |-> [e.levels EXCEPT ![category] = new_level],
                    experience_history |->
                        Append(e.experience_history,
                               [category |-> category,
                                amount_attempted |-> amount,
                                amount_gained |-> new_level - old_level,
                                source |-> source,
                                success |-> success,
                                old_level |-> old_level,
                                new_level |-> new_level])],
             outcome |-> "ok",
             significant |-> new_level >= significant_threshold]

\* ExperienceLevels.gain_experience:
\* [e |-> the tracker after the call, outcome, significant |-> the result].
gain_experience(e, category, amount, source, success) ==
    IF category \notin Categories
    THEN [e |-> e, outcome |-> "ValueError", significant |-> FALSE]
    ELSE IF amount < 0
    THEN [e |-> e, outcome |-> "ValueError", significant |-> FALSE]
    ELSE LET old_level == e.levels[category]
             diminishing_factor == Scale - Mul(old_level, DiminishingRate)
             actual_gain == Mul(amount, diminishing_factor)
             new_level == Min(Scale, old_level + actual_gain)
         IN [e |-> [levels |-> [e.levels EXCEPT ![category] = new_level],
                    experience_history |->
                        Append(e.experience_history,
                               [category |-> category,
                                amount_attempted |-> amount,
                                amount_gained |-> new_level - old_level,
                                source |-> source,
                                success |-> success,
                                old_level |-> old_level,
                                new_level |-> new_level])],
             outcome |-> "ok",
             significant |-> (new_level - old_level) >= significant_threshold]

\* EXPERIENCE_MAPPINGS: per action the (category, base amount) pairs in the
\* order the dict literal lists them; an action without an entry maps to <<>>.
EXPERIENCE_MAPPINGS ==
    [gather_food |-> <<<<"survival", 200>>, <<"resource_management", 150>>>>,
     gather_materials |-> <<<<"survival", 100>>, <<"resource_management", 250>>>>,
     craft_tools |-> <<<<"crafting", 300>>, <<"resource_management", 100>>>>,
     build_shelter |-> <<<<"crafting", 250>>, <<"survival", 150>>,
                         <<"resource_management", 100>>>>,
     help_random_npc |-> <<<<"social_manipulation", 100>>, <<"negotiation", 100>>,
                           <<"leadership", 50>>>>,
     share_resources |-> <<<<"negotiation", 100>>, <<"leadership", 50>>,
                           <<"resource_management", 50>>>>,
     start_conversation |-> <<<<"social_manipulation", 150>>, <<"negotiation", 100>>>>,
     form_alliance |-> <<<<"negotiation", 250>>, <<"social_manipulation", 150>>,
                         <<"leadership", 150>>>>,
     vote_on_proposal |-> <<<<"leadership", 50>>>>,
     propose_new_rule |-> <<<<"leadership", 300>>, <<"negotiation", 150>>>>,
     challenge_leadership |-> <<<<"leadership", 400>>, <<"combat", 100>>,
                                <<"social_manipulation", 100>>>>,
     support_leader |-> <<<<"leadership", 100>>, <<"negotiation", 50>>>>,
     practice_skills |-> <<<<"leadership", 100>>, <<"crafting", 100>>,
                           <<"survival", 100>>>>,
     observe_others |-> <<<<"social_manipulation", 200>>, <<"leadership", 50>>>>]

\* ActionType: the values of the enumeration.
ActionType ==
    DOMAIN EXPERIENCE_MAPPINGS \cup {"rest", "do_nothing"}

action_mappings(action) ==
    IF action \in DOMAIN EXPERIENCE_MAPPINGS THEN EXPERIENCE_MAPPINGS[action]
    ELSE <<>>

FailureMultiplier == 3000

\* The loop of gain_experience_from_action over the first k pairs of the
\* action's mapping: [e, results |-> category -> significant].
RECURSIVE gain_from_mappings(_, _, _, _)
gain_from_mappings(e, action, success, k) ==
    IF k = 0 THEN [e |-> e, results |-> <<>>]
    ELSE LET prev == gain_from_mappings(e, action, success, k - 1)
             category == action_mappings(action)[k][1]
             base_amount == action_mappings(action)[k][2]
             success_multiplier == IF success THEN Scale ELSE FailureMultiplier
             actual_amount == Mul(base_amount, success_multiplier)
         IN IF actual_amount > 0
            THEN LET g == gain_experience(prev.e, category, actual_amount,
                                          "action_" \o action, success)
                 IN [e |-> g.e,
                     results |-> [c \in DOMAIN prev.results \cup {category} |->
                                    IF c = category THEN g.significant
                                    ELSE prev.results[c]]]
            ELSE prev

\* gain_experience_from_action as it would be if failure earned as much as
\* success.
gain_experience_from_action_ignoring_success(e, action, success) ==
    gain_from_mappings(e, action, TRUE, Len(action_mappings(action)))

\* ExperienceLevels.gain_experience_from_action (the second definition, which
\* replaces the first in the class body).
gain_experience_from_action(e, action, success) ==
    gain_from_mappings(e, action, success, Len(action_mappings(action)))

\* ------------------------------------------------------------------------
\* RelationshipDimensions and RelationshipMatrix (relationships.py)
\* ------------------------------------------------------------------------

Dimensions == {"trust", "respect", "affection", "dependency", "fear"}

\* Attributes of a RelationshipDimensions instance that are not dimensions:
\* the history field and the methods.  hasattr() is true of them too.
RelationshipOtherAttrs ==
    {"relationship_history", "__post_init__", "get_overall_sentiment",
     "get_closeness", "get_influence_potential", "get_relationship_type",
     "update_dimension", "apply_relationship_event", "get_recent_changes",
     "to_dict", "from_dict"}

\* RelationshipDimensions(): the neutral entry.
RelationshipDimensions ==
    [trust |-> 5000, respect |-> 5000, affection |-> 5000, dependency |-> 0,
     fear |-> 0, relationship_history |-> <<>>]

get_overall_sentiment(r) ==
    LET positive == RoundDiv(r.trust + r.respect + r.affection, 3)
        negative == r.fear
        sentiment == (positive * 2 - Scale) - negative
    IN Max(-Scale, Min(Scale, sentiment))

FearPenaltyRate == 5000

get_closeness(r) ==
    LET base_closeness == RoundDiv(r.affection + r.trust + r.dependency, 3)
        fear_penalty == Mul(r.fear, FearPenaltyRate)
    IN Max(0, base_closeness - fear_penalty)

\* get_relationship_type as it would be without the "friend" band.
get_relationship_type_without_friend_band(r) ==
    LET sentiment == get_overall_sentiment(r)
        closeness == get_closeness(r)
    IN IF r.fear > 7000
       THEN IF sentiment < -3000 THEN "feared enemy" ELSE "feared authority"
       ELSE IF sentiment > 6000 /\ closeness > 7000
       THEN IF r.affection > 8000 THEN "close friend" ELSE "trusted ally"
       ELSE IF sentiment > 0 THEN "acquaintance"
       ELSE IF sentiment > -3000 THEN "neutral"
       ELSE IF sentiment > -6000 THEN "disliked"
       ELSE "enemy"

\* RelationshipDimensions.get_relationship_type
get_relationship_type(r) ==
    LET sentiment == get_overall_sentiment(r)
        closeness == get_closeness(r)
    IN IF r.fear > 7000
       THEN IF sentiment < -3000 THEN "feared enemy" ELSE "feared authority"
       ELSE IF sentiment > 6000 /\ closeness > 7000
       THEN IF r.affection > 8000 THEN "close friend" ELSE "trusted ally"
       ELSE IF sentiment > 3000 /\ closeness > 5000 THEN "friend"
       ELSE IF sentiment > 0 THEN "acquaintance"
       ELSE IF sentiment > -3000 THEN "neutral"
       ELSE IF sentiment > -6000 THEN "disliked"
       ELSE "enemy"

\* update_dimension as it would be with closeness_multiplier=False.
update_dimension_without_closeness_scaling(r, dimension, change, reason) ==
    IF dimension \notin Dimensions \cup RelationshipOtherAttrs
    THEN [r |-> r, outcome |-> "ValueError"]
    ELSE IF dimension \notin Dimensions
    THEN [r |-> r, outcome |-> "TypeError"]
    ELSE LET current_value == r[dimension]
             adjusted_change == change
             new_value == Max(0, Min(Scale, current_value + adjusted_change))
         IN [r |-> [r EXCEPT
                      ![dimension] = new_value,
                      !.relationship_history =
                          Append(@, [dimension |-> dimension,
                                     old_value |-> current_value,
                                     new_value |-> new_value,
                                     change |-> adjusted_change,
                                     reason |-> reason])],
             outcome |-> "ok"]

\* update_dimension logging the realized change new_value - old_value.
update_dimension_logging_the_realized_change(r, dimension, change, reason) ==
    IF dimension \notin Dimensions \cup RelationshipOtherAttrs
    THEN [r |-> r, outcome |-> "ValueError"]
    ELSE IF dimension \notin Dimensions
    THEN [r |-> r, outcome |-> "TypeError"]
    ELSE LET current_value == r[dimension]
             closeness == get_closeness(r)
             impact_multiplier == Scale + closeness
             adjusted_change == Mul(change, impact_multiplier)
             new_value == Max(0, Min(Scale, current_value + adjusted_change))
         IN [r |-> [r EXCEPT
                      ![dimension] = new_value,
                      !.relationship_history =
                          Append(@, [dimension |-> dimension,
                                     old_value |-> current_value,
                                     new_value |-> new_value,
                                     change |-> new_value - current_value,
                                     reason |-> reason])],
             outcome |-> "ok"]

\* RelationshipDimensions.update_dimension (closeness_multiplier left at its
\* default True): [r |-> the entry after the call, outcome].
update_dimension(r, dimension, change, reason) ==
    IF dimension \notin Dimensions \cup RelationshipOtherAttrs
    THEN [r |-> r, outcome |-> "ValueError"]
    ELSE IF dimension \notin Dimensions
    \* getattr gives a list or a bound method; adding a float to it raises
    THEN [r |-> r, outcome |-> "TypeError"]
    ELSE LET current_value == r[dimension]
             closeness == get_closeness(r)
             impact_multiplier == Scale + closeness
             adjusted_change == Mul(change, impact_multiplier)
             new_value == Max(0, Min(Scale, current_value + adjusted_change))
             old_value == current_value
         IN [r |-> [r EXCEPT
                      ![dimension] = new_value,
                      !.relationship_history =
                          Append(@, [dimension |-> dimension,
                                     old_value |-> old_value,
                                     new_value |-> new_value,
                                     change |-> adjusted_change,
                                     reason |-> reason])],
             outcome |-> "ok"]

\* relationship_events: per event the (dimension, base change) pairs in the
\* order the dict literal lists them.
relationship_events ==
    [helped_in_crisis |-> <<<<"trust", 1500>>, <<"respect", 1000>>,
                            <<"affection", 1000>>, <<"dependency", 500>>>>,
     betrayed_trust |-> <<<<"trust", -4000>>, <<"respect", -2000>>,
                          <<"affection", -3000>>, <<"fear", 1000>>>>,
     shared_resources |-> <<<<"trust", 800>>, <<"affection", 600>>,
                            <<"dependency", 300>>>>,
     competed_for_leadership |-> <<<<"respect", 500>>, <<"fear", 300>>,
                                   <<"trust", -500>>>>,
     saved_from_danger |-> <<<<"trust", 2500>>, <<"respect", 2000>>,
                             <<"affection", 2000>>, <<"dependency", 1500>>>>,
     public_humiliation |-> <<<<"respect", -3000>>, <<"affection", -2000>>,
                              <<"fear", 1000>>>>,
     kept_secret |-> <<<<"trust", 2000>>, <<"affection", 1000>>>>,
     broke_promise |-> <<<<"trust", -2500>>, <<"respect", -1000>>,
                         <<"affection", -1500>>>>,
     showed_vulnerability |-> <<<<"affection", 1000>>, <<"trust", 500>>,
                                <<"fear", -500>>>>,
     demonstrated_competence |-> <<<<"respect", 1500>>, <<"trust", 500>>>>]

\* apply_changes scaling every change by the closeness the entry had when
\* the event began.
RECURSIVE apply_changes_with_closeness_at_start(_, _, _, _, _)
apply_changes_with_closeness_at_start(r, changes, impact_strength, reason, k) ==
    IF k = 0 THEN [r |-> r, outcome |-> "ok"]
    ELSE LET prev == apply_changes_with_closeness_at_start(
                         r, changes, impact_strength, reason, k - 1)
             dimension == changes[k][1]
             adjusted_change == Mul(Mul(changes[k][2], impact_strength),
                                    Scale + get_closeness(r))
             new_value == Max(0, Min(Scale, prev.r[dimension] + adjusted_change))
         IN [r |-> [prev.r EXCEPT
                      ![dimension] = new_value,
                      !.relationship_history =
                          Append(@, [dimension |-> dimension,
                                     old_value |-> prev.r[dimension],
                                     new_value |-> new_value,
                                     change |-> adjusted_change,
                                     reason |-> reason])],
             outcome |-> "ok"]

\* Applies the first k pairs of `changes` through update_dimension, each
\* base change multiplied by impact_strength; stops at the first that raises.
RECURSIVE apply_changes(_, _, _, _, _)
apply_changes(r, changes, impact_strength, reason, k) ==
    IF k = 0 THEN [r |-> r, outcome |-> "ok"]
    ELSE LET prev == apply_changes(r, changes, impact_strength, reason, k - 1)
         IN IF prev.outcome /= "ok" THEN prev
            ELSE update_dimension(prev.r, changes[k][1],
                                  Mul(changes[k][2], impact_strength), reason)

\* RelationshipDimensions.apply_relationship_event
dimensions_apply_relationship_event(r, event_type, impact_strength) ==
    IF event_type \notin DOMAIN relationship_events
    THEN [r |-> r, outcome |-> "ValueError"]
    ELSE apply_changes(r, relationship_events[event_type], impact_strength,
                       event_type, Len(relationship_events[event_type]))

\* get_relationship as it would be if it stored a new entry on every call.
get_relationship_always_new(rels, target_npc_id) ==
    [n \in DOMAIN rels \cup {target_npc_id} |->
        IF n = target_npc_id THEN RelationshipDimensions ELSE rels[n]]

\* RelationshipMatrix.get_relationship: the matrix after the lookup, which
\* inserts a neutral entry for a partner it does not hold.
get_relationship(rels, target_npc_id) ==
    IF target_npc_id \in DOMAIN rels THEN rels
    ELSE [n \in DOMAIN rels \cup {target_npc_id} |->
            IF n = target_npc_id THEN RelationshipDimensions ELSE rels[n]]

\* RelationshipMatrix.update_relationship: [rels, outcome].
update_relationship(rels, target_npc_id, dimension, change, reason) ==
    LET got == get_relationship(rels, target_npc_id)
        u == update_dimension(got[target_npc_id], dimension, change, reason)
    IN [rels |-> [got EXCEPT ![target_npc_id] = u.r], outcome |-> u.outcome]

\* RelationshipMatrix.apply_relationship_event: [rels, outcome].
apply_relationship_event(rels, target_npc_id, event_type, impact_strength) ==
    LET got == get_relationship(rels, target_npc_id)
        u == dimensions_apply_relationship_event(got[target_npc_id], event_type,
                                                 impact_strength)
    IN [rels |-> [got EXCEPT ![target_npc_id] = u.r], outcome |-> u.outcome]

FearInfluenceRate == 8000

get_influence_potential(r) ==
    LET positive_influence == RoundDiv(r.respect + r.trust, 2)
        fear_influence == Mul(r.fear, FearInfluenceRate)
    IN Max(positive_influence, fear_influence)

\* The running total of a per-entry quantity over the entries of `partners`.
RECURSIVE total_over(_, _)
total_over(quantity, partners) ==
    IF partners = {} THEN 0
    ELSE LET n == CHOOSE x \in partners : TRUE
         IN quantity[n] + total_over(quantity, partners \ {n})

\* calculate_social_isolation with the count of positive relationships used
\* where their share of the relationships belongs.
calculate_social_isolation_by_count(rels) ==
    IF DOMAIN rels = {} THEN Scale
    ELSE LET total_closeness ==
                 total_over([n \in DOMAIN rels |-> get_closeness(rels[n])],
                            DOMAIN rels)
             positive_relationships ==
                 Cardinality({n \in DOMAIN rels :
                                 get_overall_sentiment(rels[n]) > 0})
             average_closeness == RoundDiv(total_closeness, Cardinality(DOMAIN rels))
             positive_ratio == positive_relationships * Scale
             social_connection == RoundDiv(average_closeness + positive_ratio, 2)
         IN Scale - social_connection

\* RelationshipMatrix.calculate_social_isolation.
calculate_social_isolation(rels) ==
    IF DOMAIN rels = {} THEN Scale
    ELSE LET total_closeness ==
                 total_over([n \in DOMAIN rels |-> get_closeness(rels[n])],
                            DOMAIN rels)
             positive_relationships ==
                 Cardinality({n \in DOMAIN rels :
                                 get_overall_sentiment(rels[n]) > 0})
             average_closeness == RoundDiv(total_closeness, Cardinality(DOMAIN rels))
             positive_ratio ==
                 RoundDiv(positive_relationships * Scale, Cardinality(DOMAIN rels))
             social_connection == RoundDiv(average_closeness + positive_ratio, 2)
         IN Scale - social_connection

InfluencePartnerCap == 20

\* RelationshipMatrix.calculate_social_influence.
calculate_social_influence(rels) ==
    IF DOMAIN rels = {} THEN 0
    ELSE LET total_influence ==
                 total_over([n \in DOMAIN rels |->
                               get_influence_potential(rels[n])], DOMAIN rels)
             average_influence == RoundDiv(total_influence, Cardinality(DOMAIN rels))
             relationship_bonus ==
                 Min(Scale, RoundDiv(Cardinality(DOMAIN rels) * Scale,
                                     InfluencePartnerCap))
         IN Min(Scale, Mul(average_influence, Scale + relationship_bonus))

\* ------------------------------------------------------------------------
\* TraumaState (trauma.py)
\* ------------------------------------------------------------------------

natural_healing_rate == 10

\* TraumaState()
TraumaState ==
    [memories |-> <<>>, last_healing_activity |-> "None",
     natural_healing_rate |-> natural_healing_rate]

\* TraumaState.add_trauma: [t |-> the ledger after the call, outcome].
add_trauma(t, event_type, impact, npc_age, description, related_npcs) ==
    IF impact < 0 \/ npc_age < 0
    THEN [t |-> t, outcome |-> "ValueError"]
    ELSE [t |-> [t EXCEPT !.memories =
                    Append(@, TraumaMemory(event_type, impact, impact, npc_age,
                                           description, related_npcs))],
          outcome |-> "ok"]

\* The healing loops visit the memories in list order and call apply_healing
\* on those that are selected and not fully healed; a call that raises ends the
\* loop with the earlier memories healed.
RECURSIVE heal_each(_, _, _, _, _)
heal_each(memories, selected, amounts, source, k) ==
    IF k = 0 THEN [memories |-> memories, outcome |-> "ok"]
    ELSE LET prev == heal_each(memories, selected, amounts, source, k - 1)
             m == prev.memories[k]
         IN IF prev.outcome /= "ok" \/ ~selected[k] \/ is_fully_healed(m)
            THEN prev
            ELSE LET h == apply_healing(m, amounts[k], source)
                 IN [memories |-> [prev.memories EXCEPT ![k] = h.m],
                     outcome |-> h.outcome]

ForgivenessWeight == 5000

PatienceWeight == 3000

AnalyticalWeight == 2000

ActivityWeight == 2000

\* TraumaState.apply_daily_healing: [t, outcome].
apply_daily_healing(t, p, days_passed) ==
    LET healing_multiplier ==
            Mul(p["forgiveness"], ForgivenessWeight)
            + Mul(Scale - p["impulsiveness"], PatienceWeight)
            + Mul(p["analytical"], AnalyticalWeight)
            + Mul(Scale - p["laziness"], ActivityWeight)
        daily_healing == Mul(t.natural_healing_rate, healing_multiplier) * days_passed
        every == [k \in 1..Len(t.memories) |-> TRUE]
        amounts == [k \in 1..Len(t.memories) |-> daily_healing]
        h == heal_each(t.memories, every, amounts, "natural_healing",
                       Len(t.memories))
    IN [t |-> [t EXCEPT !.memories = h.memories], outcome |-> h.outcome]

\* activity_effectiveness: effective types and general effectiveness.
activity_effectiveness ==
    [prayer |-> [effective_types |-> {"guilt", "loss_of_purpose", "moral_failure"},
                 general_effectiveness |-> 8000],
     meditation |-> [effective_types |-> {"anxiety", "leadership_failure",
                                          "social_rejection"},
                     general_effectiveness |-> 9000],
     socializing |-> [effective_types |-> {"social_rejection", "isolation",
                                           "betrayal"},
                      general_effectiveness |-> 7000],
     helping_others |-> [effective_types |-> {"guilt", "selfishness",
                                              "leadership_failure"},
                         general_effectiveness |-> 8000],
     crafting |-> [effective_types |-> {"depression", "purposelessness",
                                        "resource_loss"},
                   general_effectiveness |-> 6000],
     storytelling |-> [effective_types |-> {"all"},
                       general_effectiveness |-> 10000],
     physical_exercise |-> [effective_types |-> {"anxiety", "depression",
                                                 "violence"},
                            general_effectiveness |-> 7000]]

activity_config(activity) ==
    IF activity \in DOMAIN activity_effectiveness
    THEN activity_effectiveness[activity]
    ELSE [effective_types |-> {}, general_effectiveness |-> 5000]

EffectiveBoost == 15000

GeneralFactor == 5000

TraitBonusThreshold == 7000

SocializingBonus == 13000

FocusBonus == 12000

\* The effectiveness apply_activity_healing computes for memory m.
activity_effectiveness_for(m, activity, p) ==
    LET config == activity_config(activity)
        base_effectiveness == config.general_effectiveness
        matched == IF "all" \in config.effective_types
                      \/ m.event_type \in config.effective_types
                   THEN Mul(base_effectiveness, EffectiveBoost)
                   ELSE Mul(base_effectiveness, GeneralFactor)
    IN IF activity = "socializing" /\ p["sociability"] > TraitBonusThreshold
       THEN Mul(matched, SocializingBonus)
       ELSE IF activity = "meditation" /\ p["analytical"] > TraitBonusThreshold
       THEN Mul(matched, FocusBonus)
       ELSE IF activity = "helping_others" /\ p["forgiveness"] > TraitBonusThreshold
       THEN Mul(matched, FocusBonus)
       ELSE matched

\* TraumaState.apply_activity_healing: [t, outcome].
apply_activity_healing(t, activity, healing_amount, p) ==
    IF healing_amount < 0 THEN [t |-> t, outcome |-> "ValueError"]
    ELSE LET every == [k \in 1..Len(t.memories) |-> TRUE]
             amounts ==
                 [k \in 1..Len(t.memories) |->
                    Mul(healing_amount,
                        activity_effectiveness_for(t.memories[k], activity, p))]
             h == heal_each(t.memories, every, amounts, "activity_" \o activity,
                            Len(t.memories))
         IN [t |-> [t EXCEPT !.last_healing_activity = activity,
                             !.memories = h.memories],
             outcome |-> h.outcome]

\* counter_mappings: trauma type -> the counter events that heal it.
counter_mappings ==
    [betrayal |-> {"trust_restoration", "loyalty_demonstrated"},
     leadership_failure |-> {"leadership_success", "recognition"},
     social_rejection |-> {"social_acceptance", "friendship_formed"},
     resource_loss |-> {"resource_security", "abundance_experienced"},
     violence |-> {"safety_provided", "protection_received"},
     abandonment |-> {"loyalty_shown", "commitment_demonstrated"}]

CounterImpactRate == 6000

CounterShareOfCurrent == 8000

\* A variant that heals the memories of every trauma type.
apply_counter_experience_healing_of_every_type(t, counter_event_type, positive_impact) ==
    IF positive_impact < 0 THEN [t |-> t, outcome |-> "ValueError"]
    ELSE LET every == [k \in 1..Len(t.memories) |-> TRUE]
             amounts ==
                 [k \in 1..Len(t.memories) |->
                    Min(Mul(positive_impact, CounterImpactRate),
                        Mul(t.memories[k].current_impact, CounterShareOfCurrent))]
             h == heal_each(t.memories, every, amounts,
                            "counter_experience_" \o counter_event_type,
                            Len(t.memories))
         IN [t |-> [t EXCEPT !.memories = h.memories], outcome |-> h.outcome]

\* TraumaState.apply_counter_experience_healing: [t, outcome].  Every counter
\* event is listed under one trauma type, so the memories the nested loops
\* reach are those whose type lists the event, each once.
apply_counter_experience_healing(t, counter_event_type, positive_impact) ==
    IF positive_impact < 0 THEN [t |-> t, outcome |-> "ValueError"]
    ELSE LET reached ==
                 [k \in 1..Len(t.memories) |->
                    /\ t.memories[k].event_type \in DOMAIN counter_mappings
                    /\ counter_event_type
                          \in counter_mappings[t.memories[k].event_type]]
             amounts ==
                 [k \in 1..Len(t.memories) |->
                    Min(Mul(positive_impact, CounterImpactRate),
                        Mul(t.memories[k].current_impact, CounterShareOfCurrent))]
             h == heal_each(t.memories, reached, amounts,
                            "counter_experience_" \o counter_event_type,
                            Len(t.memories))
         IN [t |-> [t EXCEPT !.memories = h.memories], outcome |-> h.outcome]

ImpactCap == 20000

ActiveThreshold == 1000

\* Sum of current_impact over the memories 1..k that pass `counted`.
RECURSIVE total_impact(_, _, _)
total_impact(memories, counted, k) ==
    IF k = 0 THEN 0
    ELSE total_impact(memories, counted, k - 1)
         + (IF counted[k] THEN memories[k].current_impact ELSE 0)

\* TraumaState.get_trauma_impact: every memory of the type is summed.
get_trauma_impact(t, trauma_type) ==
    LET of_type == [k \in 1..Len(t.memories) |->
                      t.memories[k].event_type = trauma_type]
    IN Min(ImpactCap, total_impact(t.memories, of_type, Len(t.memories)))

\* TraumaState.get_active_traumas: the threshold test is made on each memory,
\* and only the memories that pass it create the type's key and are summed.
get_active_traumas(t, threshold) ==
    LET passing == [k \in 1..Len(t.memories) |->
                      t.memories[k].current_impact >= threshold]
        types == {t.memories[k].event_type :
                     k \in {j \in 1..Len(t.memories) : passing[j]}}
    IN [ty \in types |->
          LET counted == [k \in 1..Len(t.memories) |->
                            passing[k] /\ t.memories[k].event_type = ty]
          IN Min(ImpactCap, total_impact(t.memories, counted, Len(t.memories)))]

\* ------------------------------------------------------------------------
\* NPCState (npc.py)
\* ------------------------------------------------------------------------

\* An NPCState value: the six parts the variables hold.
NPC(p, e, t, r, ph, g) ==
    [personality |-> p, experience |-> e, trauma |-> t, relationships |-> r,
     physical |-> ph, game |-> g]

\* __post_init__: an empty name becomes f"NPC_{npc_id}".
default_name(npc_id) == "NPC_" \o npc_id

DefaultHealth == 8000

DefaultHunger == 5000

DefaultEnergy == 7000

DefaultAge == 25

\* update_physical_state as it would be without the clamp to [0, 1].
update_physical_state_unclamped(ph, health_change, hunger_change, energy_change) ==
    [health |-> ph.health + health_change,
     hunger_level |-> ph.hunger_level + hunger_change,
     energy_level |-> ph.energy_level + energy_change]

\* NPCState.update_physical_state
update_physical_state(ph, health_change, hunger_change, energy_change) ==
    [health |-> Max(0, Min(Scale, ph.health + health_change)),
     hunger_level |-> Max(0, Min(Scale, ph.hunger_level + hunger_change)),
     energy_level |-> Max(0, Min(Scale, ph.energy_level + energy_change))]

\* ACTION_METADATA: energy_cost per action.
energy_costs ==
    [gather_food |-> 3000, gather_materials |-> 4000, craft_tools |-> 2000,
     build_shelter |-> 5000, help_random_npc |-> 2000, share_resources |-> 1000,
     start_conversation |-> 1000, form_alliance |-> 1000,
     vote_on_proposal |-> 500, propose_new_rule |-> 1500,
     challenge_leadership |-> 3000, support_leader |-> 1000, rest |-> -4000,
     practice_skills |-> 2000, observe_others |-> 500, do_nothing |-> 0]

DefaultEnergyCost == 1000

\* get_action_metadata(action).get('energy_cost', 0.1)
energy_cost_of(action) ==
    IF action \in DOMAIN energy_costs THEN energy_costs[action]
    ELSE DefaultEnergyCost

DefaultFoodGained == 1000

RestHealthLimit == 8000

\* outcome_data, the dict perform_action receives, as a record:
\*   target_npc      "" when the key is absent
\*   has_food, food_gained        the key 'food_gained' and its value
\*   has_trauma, has_impact, trauma_type, trauma_impact
\*                   the key 'traumatic_event' and its 'type' and 'impact'
Outcome(target_npc, has_food, food_gained, has_trauma, has_impact, trauma_type, trauma_impact) ==
    [target_npc |-> target_npc, has_food |-> has_food,
     food_gained |-> food_gained, has_trauma |-> has_trauma,
     has_impact |-> has_impact, trauma_type |-> trauma_type,
     trauma_impact |-> trauma_impact]

\* NPCState._apply_action_physical_effects
apply_action_physical_effects(ph, action, success, outcome_data) ==
    LET energy_cost == energy_cost_of(action)
        spent == update_physical_state(ph, 0, 0, -energy_cost)
    IN IF action = "gather_food" /\ success
       THEN LET hunger_reduction ==
                    IF outcome_data.has_food THEN outcome_data.food_gained
                    ELSE DefaultFoodGained
            IN update_physical_state(spent, 0, -hunger_reduction, 0)
       ELSE IF action = "rest"
       THEN LET energy_restoration == IF success THEN 4000 ELSE 2000
                health_restoration ==
                    IF spent.health < RestHealthLimit THEN 1000 ELSE 0
            IN update_physical_state(spent, health_restoration, 0,
                                     energy_restoration)
       ELSE IF action \in {"build_shelter", "craft_tools"} /\ success
       THEN update_physical_state(spent, 200, 0, 0)
       ELSE spent

\* NPCState._apply_action_relationship_effects: [rels, outcome].  A failed
\* action maps to an event name none of the branches handles.
apply_action_relationship_effects(rels, action, success, outcome_data) ==
    LET target_npc == outcome_data.target_npc
    IN IF target_npc = "" \/ ~success THEN [rels |-> rels, outcome |-> "ok"]
       ELSE IF action = "help_random_npc"
       THEN apply_relationship_event(rels, target_npc, "helped_in_crisis", Scale)
       ELSE IF action = "share_resources"
       THEN apply_relationship_event(rels, target_npc, "shared_resources", Scale)
       ELSE IF action = "form_alliance"
       THEN LET first == update_relationship(rels, target_npc, "trust", 1000,
                                             "formed_alliance")
            IN IF first.outcome /= "ok" THEN first
               ELSE update_relationship(first.rels, target_npc, "respect", 500,
                                        "formed_alliance")
       ELSE IF action = "start_conversation"
       THEN update_relationship(rels, target_npc, "affection", 500,
                                "conversation")
       ELSE [rels |-> rels, outcome |-> "ok"]

DefaultTraumaImpact == 5000

\* _process_traumatic_event as it would be if it ignored the 'impact' key.
process_traumatic_event_with_default_impact(t, npc_age, trauma_type, has_impact, trauma_impact, description, related_npcs) ==
    add_trauma(t, trauma_type, DefaultTraumaImpact, npc_age, description,
               related_npcs)

\* NPCState._process_traumatic_event: [t, outcome].
process_traumatic_event(t, npc_age, trauma_type, has_impact, trauma_impact, description, related_npcs) ==
    LET impact == IF has_impact THEN trauma_impact ELSE DefaultTraumaImpact
    IN add_trauma(t, trauma_type, impact, npc_age, description, related_npcs)

\* NPCState.perform_action: [npc |-> the state the call leaves, outcome,
\* results |-> the map it returns].  The statements run in program order; the
\* one that can raise is the last, so a failed call keeps all earlier effects.
perform_action(n, action, success, outcome_data) ==
    LET g1 == [n.game EXCEPT !.last_action = action,
                             !.last_action_success =
                                 IF success THEN "True" ELSE "False"]
        gained == gain_experience_from_action(n.experience, action, success)
        ph1 == apply_action_physical_effects(n.physical, action, success,
                                             outcome_data)
        rel == IF outcome_data.target_npc /= ""
               THEN apply_action_relationship_effects(n.relationships, action,
                                                      success, outcome_data)
               ELSE [rels |-> n.relationships, outcome |-> "ok"]
        tr == IF rel.outcome = "ok" /\ outcome_data.has_trauma
              THEN process_traumatic_event(n.trauma, g1.age,
                                           outcome_data.trauma_type,
                                           outcome_data.has_impact,
                                           outcome_data.trauma_impact,
                                           "Experienced "
                                               \o outcome_data.trauma_type,
                                           <<>>)
              ELSE [t |-> n.trauma, outcome |-> rel.outcome]
    IN [npc |-> NPC(n.personality, gained.e, tr.t, rel.rels, ph1, g1),
        outcome |-> tr.outcome,
        results |-> gained.results]

\* interaction_effects: per interaction type and outcome the (dimension,
\* change) pairs in the order the dict literals list them.
interaction_effects ==
    [casual_conversation |->
        [success |-> <<<<"affection", 500>>, <<"trust", 200>>>>,
         failure |-> <<<<"affection", -200>>>>],
     help_request |->
        [success |-> <<<<"trust", 1000>>, <<"dependency", 500>>,
                       <<"affection", 800>>>>,
         failure |-> <<<<"trust", -500>>, <<"respect", -300>>>>],
     resource_sharing |->
        [success |-> <<<<"trust", 800>>, <<"affection", 600>>,
                       <<"dependency", 300>>>>,
         failure |-> <<<<"trust", -1000>>, <<"affection", -500>>>>],
     conflict |->
        [success |-> <<<<"fear", 1000>>, <<"respect", 500>>,
                       <<"affection", -1000>>>>,
         failure |-> <<<<"fear", -500>>, <<"respect", -1000>>,
                       <<"trust", -500>>>>],
     betrayal |->
        [success |-> <<<<"trust", -4000>>, <<"affection", -3000>>,
                       <<"fear", 2000>>, <<"respect", -2000>>>>]]

BetrayalImpact == 6000

\* Applies the first k pairs of `effects` through update_relationship.
RECURSIVE apply_effects(_, _, _, _, _)
apply_effects(rels, target_npc_id, effects, reason, k) ==
    IF k = 0 THEN [rels |-> rels, outcome |-> "ok"]
    ELSE LET prev == apply_effects(rels, target_npc_id, effects, reason, k - 1)
         IN IF prev.outcome /= "ok" THEN prev
            ELSE update_relationship(prev.rels, target_npc_id, effects[k][1],
                                     effects[k][2], reason)

\* interact_with_npc as it would be if it looked the partner up before it
\* checked the interaction type.
interact_with_npc_lookup_first(n, target_npc_id, interaction_type, outcome) ==
    LET seen == [n EXCEPT !.relationships =
                     get_relationship(n.relationships, target_npc_id)]
    IN IF interaction_type \notin DOMAIN interaction_effects
       THEN [npc |-> seen, outcome |-> "ok", ret |-> "error"]
       ELSE LET table == interaction_effects[interaction_type]
                effects == IF outcome \in DOMAIN table THEN table[outcome]
                           ELSE <<>>
                rel == apply_effects(seen.relationships, target_npc_id, effects,
                                     interaction_type \o "_" \o outcome,
                                     Len(effects))
                tr == IF interaction_type = "betrayal" /\ outcome = "success"
                      THEN process_traumatic_event(n.trauma, n.game.age,
                                                   "betrayal", TRUE,
                                                   BetrayalImpact,
                                                   "Betrayed by "
                                                       \o target_npc_id,
                                                   <<target_npc_id>>)
                      ELSE [t |-> n.trauma, outcome |-> "ok"]
            IN [npc |-> [n EXCEPT !.relationships = rel.rels, !.trauma = tr.t],
                outcome |-> "ok",
                ret |-> "result"]

\* NPCState.interact_with_npc: [npc, outcome, ret |-> "error" for the error
\* dict, "result" for the result dict].
interact_with_npc(n, target_npc_id, interaction_type, outcome) ==
    IF interaction_type \notin DOMAIN interaction_effects
    THEN [npc |-> n, outcome |-> "ok", ret |-> "error"]
    ELSE LET table == interaction_effects[interaction_type]
             effects == IF outcome \in DOMAIN table THEN table[outcome] ELSE <<>>
             rel == apply_effects(n.relationships, target_npc_id, effects,
                                  interaction_type \o "_" \o outcome,
                                  Len(effects))
             tr == IF interaction_type = "betrayal" /\ outcome = "success"
                   THEN process_traumatic_event(n.trauma, n.game.age, "betrayal",
                                                TRUE, BetrayalImpact,
                                                "Betrayed by " \o target_npc_id,
                                                <<target_npc_id>>)
                   ELSE [t |-> n.trauma, outcome |-> "ok"]
             \* the result dict looks the partner up once more
             looked_up == get_relationship(rel.rels, target_npc_id)
         IN [npc |-> [n EXCEPT !.relationships = looked_up, !.trauma = tr.t],
             outcome |-> "ok",
             ret |-> "result"]

DaysPerYear == 365

LifeWisdomAmount == 100

HealingActivities ==
    {"meditation", "socializing", "crafting", "prayer", "helping_others"}

\* process_activities healing for every tag of the activity_effectiveness
\* table.
RECURSIVE process_activities_of_the_whole_table(_, _, _, _, _)
process_activities_of_the_whole_table(t, p, activities, amounts, k) ==
    IF k = 0 THEN [t |-> t, outcome |-> "ok"]
    ELSE LET prev == process_activities_of_the_whole_table(t, p, activities,
                                                           amounts, k - 1)
         IN IF prev.outcome /= "ok"
               \/ activities[k] \notin DOMAIN activity_effectiveness
            THEN prev
            ELSE apply_activity_healing(prev.t, activities[k], amounts[k], p)

\* The loop of advance_day over the first k activities; amounts[k] is the
\* random.uniform(0.005, 0.02) drawn for activity k.
RECURSIVE process_activities(_, _, _, _, _)
process_activities(t, p, activities, amounts, k) ==
    IF k = 0 THEN [t |-> t, outcome |-> "ok"]
    ELSE LET prev == process_activities(t, p, activities, amounts, k - 1)
         IN IF prev.outcome /= "ok" \/ activities[k] \notin HealingActivities
            THEN prev
            ELSE apply_activity_healing(prev.t, activities[k], amounts[k], p)

\* advance_day as it would be if it never changed the age.
advance_day_without_birthday(n, activities, hunger_draw, energy_draw, amounts, wisdom, wisdom_skill) ==
    LET days == n.game.days_alive + 1
        ph1 == update_physical_state(n.physical, 0, hunger_draw, energy_draw)
        daily == apply_daily_healing(n.trauma, n.personality, 1)
        acts == IF daily.outcome = "ok"
                THEN process_activities(daily.t, n.personality, activities,
                                        amounts, Len(activities))
                ELSE daily
        g1 == [n.game EXCEPT !.days_alive = days]
    IN [npc |-> NPC(n.personality, n.experience, acts.t, n.relationships, ph1,
                    g1),
        outcome |-> acts.outcome]

\* NPCState.advance_day: [npc, outcome].  The random draws are arguments:
\* hunger_draw = random.uniform(0.1, 0.2), energy_draw = random.uniform(-0.1,
\* 0.1), amounts as above, wisdom = (random.random() < 0.3) and wisdom_skill =
\* random.choice(['leadership', 'negotiation', 'survival']).
advance_day(n, activities, hunger_draw, energy_draw, amounts, wisdom, wisdom_skill) ==
    LET days == n.game.days_alive + 1
        ph1 == update_physical_state(n.physical, 0, hunger_draw, energy_draw)
        daily == apply_daily_healing(n.trauma, n.personality, 1)
        acts == IF daily.outcome = "ok"
                THEN process_activities(daily.t, n.personality, activities,
                                        amounts, Len(activities))
                ELSE daily
        birthday == acts.outcome = "ok" /\ days % DaysPerYear = 0
        g1 == [n.game EXCEPT !.days_alive = days,
                             !.age = IF birthday THEN @ + 1 ELSE @]
        e1 == IF birthday /\ wisdom
              THEN gain_experience(n.experience, wisdom_skill, LifeWisdomAmount,
                                   "life_wisdom", TRUE).e
              ELSE n.experience
    IN [npc |-> NPC(n.personality, e1, acts.t, n.relationships, ph1, g1),
        outcome |-> acts.outcome]

\* ------------------------------------------------------------------------
\* to_dict / from_dict of the five classes
\* ------------------------------------------------------------------------
\* A dict is a function on its keys.  to_dict puts the history lists of the
\* object into the dict as they are and from_dict stores the lists of the
\* dict in the new object as they are: shared_lists names the lists that two
\* objects then hold in common.  The keys 'timestamp' and
\* 'creation_timestamp' (datetime values written with isoformat and read
\* back with fromisoformat) and the ledger's healing_progress dict, which no
\* method writes, are not represented.

\* dict.get(key, default)
Get(data, key, default) == IF key \in DOMAIN data THEN data[key] ELSE default

\* The first way a sequence of calls ended other than "ok".
FirstFailure(outcomes) ==
    LET bad == {i \in 1..Len(outcomes) : outcomes[i] /= "ok"}
    IN IF bad = {} THEN "ok"
       ELSE outcomes[CHOOSE i \in bad : \A j \in bad : i <= j]

\* TraumaMemory.to_dict
memory_to_dict(m) ==
    [event_type |-> m.event_type,
     original_impact |-> m.original_impact,
     current_impact |-> m.current_impact,
     age_when_occurred |-> m.age_when_occurred,
     description |-> m.description,
     related_npcs |-> m.related_npcs,
     healing_activities |-> m.healing_activities]

\* The keys TraumaMemory.from_dict reads with data[...].
MemoryRequiredKeys ==
    {"event_type", "original_impact", "current_impact", "age_when_occurred",
     "description"}

\* TraumaMemory.from_dict: [m |-> the memory, outcome].
memory_from_dict(data) ==
    IF ~(MemoryRequiredKeys \subseteq DOMAIN data)
    THEN [m |-> <<>>, outcome |-> "KeyError"]
    ELSE IF post_init_raises(data.original_impact, data.current_impact,
                             data.age_when_occurred)
         THEN [m |-> <<>>, outcome |-> "ValueError"]
         ELSE [m |-> [TraumaMemory(data.event_type, data.original_impact,
                                   data.current_impact, data.age_when_occurred,
                                   data.description,
                                   Get(data, "related_npcs", <<>>))
                         EXCEPT !.healing_activities =
                                    Get(data, "healing_activities", <<>>)],
               outcome |-> "ok"]

\* TraumaState.to_dict
trauma_to_dict(t) ==
    [memories |-> [i \in 1..Len(t.memories) |-> memory_to_dict(t.memories[i])],
     last_healing_activity |-> t.last_healing_activity,
     natural_healing_rate |-> t.natural_healing_rate]

\* TraumaState.from_dict: [t |-> the ledger, outcome].
trauma_from_dict(data) ==
    LET ms == Get(data, "memories", <<>>)
        rs == [i \in 1..Len(ms) |-> memory_from_dict(ms[i])]
        outcome == FirstFailure([i \in 1..Len(ms) |-> rs[i].outcome])
    IN IF outcome /= "ok"
       THEN [t |-> TraumaState, outcome |-> outcome]
       ELSE [t |-> [memories |-> [i \in 1..Len(ms) |-> rs[i].m],
                    last_healing_activity |->
                        Get(data, "last_healing_activity", "None"),
                    natural_healing_rate |->
                        Get(data, "natural_healing_rate", natural_healing_rate)],
             outcome |-> "ok"]

\* ExperienceLevels.to_dict
experience_to_dict(e) ==
    [experience_levels |-> e.levels, experience_history |-> e.experience_history]

\* ExperienceLevels.from_dict: cls(**experience_levels), then the history.
experience_from_dict(data) ==
    LET kw == Get(data, "experience_levels", <<>>)
    IN IF ~(DOMAIN kw \subseteq Categories)
       THEN [e |-> ExperienceLevels, outcome |-> "TypeError"]
       ELSE IF \E c \in DOMAIN kw : ~(0 <= kw[c] /\ kw[c] <= Scale)
            THEN [e |-> ExperienceLevels, outcome |-> "ValueError"]
            ELSE [e |-> [levels |-> [c \in Categories |-> Get(kw, c, 0)],
                         experience_history |->
                             Get(data, "experience_history", <<>>)],
                  outcome |-> "ok"]

\* RelationshipDimensions.to_dict
dimensions_to_dict(r) ==
    [trust |-> r.trust, respect |-> r.respect, affection |-> r.affection,
     dependency |-> r.dependency, fear |-> r.fear,
     relationship_history |-> r.relationship_history]

\* RelationshipDimensions.from_dict: every key read with data.get, the
\* defaults being those of the dataclass.
dimensions_from_dict(data) ==
    LET r == [k \in DOMAIN RelationshipDimensions |->
                 Get(data, k, RelationshipDimensions[k])]
    IN IF \E d \in Dimensions : ~(0 <= r[d] /\ r[d] <= Scale)
       THEN [r |-> RelationshipDimensions, outcome |-> "ValueError"]
       ELSE [r |-> r, outcome |-> "ok"]

\* RelationshipMatrix.to_dict
matrix_to_dict(rs) == [p \in DOMAIN rs |-> dimensions_to_dict(rs[p])]

\* RelationshipMatrix.from_dict
matrix_from_dict(data) ==
    LET rs == [p \in DOMAIN data |-> dimensions_from_dict(data[p])]
    IN IF \E p \in DOMAIN data : rs[p].outcome /= "ok"
       THEN [rs |-> <<>>, outcome |-> "ValueError"]
       ELSE [rs |-> [p \in DOMAIN data |-> rs[p].r], outcome |-> "ok"]

\* PersonalityTraits.to_dict, called as self.personality.to_dict(): an
\* instance attribute of that name is found before the method, and calling a
\* float raises TypeError.
personality_to_dict(p) ==
    IF "to_dict" \in DOMAIN p
    THEN [data |-> <<>>, outcome |-> "TypeError"]
    ELSE [data |-> [t \in Traits |-> p[t]], outcome |-> "ok"]

\* PersonalityTraits.from_dict: cls(**data)
personality_from_dict(data) ==
    IF ~(DOMAIN data \subseteq Traits)
    THEN [p |-> PersonalityTraits(<<>>), outcome |-> "TypeError"]
    ELSE IF \E t \in DOMAIN data : ~(0 <= data[t] /\ data[t] <= Scale)
         THEN [p |-> PersonalityTraits(<<>>), outcome |-> "ValueError"]
         ELSE [p |-> PersonalityTraits(data), outcome |-> "ok"]

\* NPCState.to_dict: [data |-> the dict, outcome].
npc_to_dict(n) ==
    LET p == personality_to_dict(n.personality)
    IN IF p.outcome /= "ok"
       THEN [data |-> <<>>, outcome |-> p.outcome]
       ELSE [data |->
                [npc_id |-> n.game.npc_id,
                 name |-> n.game.name,
                 age |-> n.game.age,
                 health |-> n.physical.health,
                 hunger_level |-> n.physical.hunger_level,
                 energy_level |-> n.physical.energy_level,
                 personality |-> p.data,
                 experience |-> experience_to_dict(n.experience),
                 trauma |-> trauma_to_dict(n.trauma),
                 relationships |-> matrix_to_dict(n.relationships),
                 last_action |-> n.game.last_action,
                 last_action_success |-> n.game.last_action_success,
                 days_alive |-> n.game.days_alive],
             outcome |-> "ok"]

\* NPCState.__post_init__: TRUE when the constructor raises ValueError.
npc_post_init_raises(age, health, hunger_level, energy_level) ==
    \/ age < 0
    \/ ~(0 <= health /\ health <= Scale)
    \/ ~(0 <= hunger_level /\ hunger_level <= Scale)
    \/ ~(0 <= energy_level /\ energy_level <= Scale)

\* NPCState.from_dict: [n |-> the NPCState, outcome].  The scalar fields go
\* through the constructor; each part is rebuilt only when its key is there.
npc_from_dict(data) ==
    IF "npc_id" \notin DOMAIN data
    THEN [n |-> <<>>, outcome |-> "KeyError"]
    ELSE LET name == Get(data, "name", "")
             age == Get(data, "age", DefaultAge)
             ph == [health |-> Get(data, "health", DefaultHealth),
                    hunger_level |-> Get(data, "hunger_level", DefaultHunger),
                    energy_level |-> Get(data, "energy_level", DefaultEnergy)]
             g == [npc_id |-> data.npc_id,
                   name |-> IF name = "" THEN default_name(data.npc_id)
                            ELSE name,
                   age |-> age,
                   days_alive |-> Get(data, "days_alive", 0),
                   last_action |-> Get(data, "last_action", "None"),
                   last_action_success |->
                       Get(data, "last_action_success", "None")]
             p == IF "personality" \in DOMAIN data
                  THEN personality_from_dict(data.personality)
                  ELSE [p |-> PersonalityTraits(<<>>), outcome |-> "ok"]
             e == IF "experience" \in DOMAIN data
                  THEN experience_from_dict(data.experience)
                  ELSE [e |-> ExperienceLevels, outcome |-> "ok"]
             t == IF "trauma" \in DOMAIN data
                  THEN trauma_from_dict(data.trauma)
                  ELSE [t |-> TraumaState, outcome |-> "ok"]
             r == IF "relationships" \in DOMAIN data
                  THEN matrix_from_dict(data.relationships)
                  ELSE [rs |-> <<>>, outcome |-> "ok"]
             outcome == FirstFailure(<<p.outcome, e.outcome, t.outcome,
                                       r.outcome>>)
         IN IF npc_post_init_raises(age, ph.health, ph.hunger_level,
                                    ph.energy_level)
            THEN [n |-> <<>>, outcome |-> "ValueError"]
            ELSE IF outcome /= "ok"
                 THEN [n |-> <<>>, outcome |-> outcome]
                 ELSE [n |-> NPC(p.p, e.e, t.t, r.rs, ph, g), outcome |-> "ok"]

\* The lists of NPCState.from_dict(data) that are the very list objects held
\* by data, hence by the NPCState whose to_dict made data: the experience
\* history, each partner's relationship history and each memory's healing
\* log, wherever the key is present.
shared_lists(data) ==
    LET e == Get(data, "experience", <<>>)
        rs == Get(data, "relationships", <<>>)
        ms == Get(Get(data, "trauma", <<>>), "memories", <<>>)
    IN [experience_history |-> "experience_history" \in DOMAIN e,
        relationship_history |->
            {p \in DOMAIN rs : "relationship_history" \in DOMAIN rs[p]},
        healing_activities |->
            {i \in 1..Len(ms) : "healing_activities" \in DOMAIN ms[i]}]

\* ------------------------------------------------------------------------
\* Governance and SocialClimate (world_state.py)
\* ------------------------------------------------------------------------

\* The proposal dict add_proposal builds; the voter set starts empty.
Proposal(proposal_id, proposer, proposal_type, description, voting_deadline) ==
    [id |-> proposal_id, proposer |-> proposer, type |-> proposal_type,
     description |-> description, voting_deadline |-> voting_deadline,
     votes_for |-> 0, votes_against |-> 0, abstentions |-> 0, voters |-> {}]

\* Governance.add_proposal: the proposal list after the call.
add_proposal(proposals, proposal_id, proposer, proposal_type, description, voting_deadline) ==
    Append(proposals, Proposal(proposal_id, proposer, proposal_type,
                               description, voting_deadline))

\* Governance.get_proposal: the position of the first proposal with the id,
\* 0 where the code returns None.
get_proposal(proposals, proposal_id) ==
    LET matching == {k \in 1..Len(proposals) : proposals[k].id = proposal_id}
    IN IF matching = {} THEN 0
       ELSE CHOOSE k \in matching : \A j \in matching : k <= j

\* cast_vote without the test on the voter set.
cast_vote_counting_every_call(proposals, proposal_id, voter_id, vote) ==
    LET k == get_proposal(proposals, proposal_id)
    IN IF k = 0
       THEN [proposals |-> proposals, ret |-> "False"]
       ELSE [proposals |->
                [proposals EXCEPT
                   ![k].voters = @ \cup {voter_id},
                   ![k].votes_for = IF vote = "for" THEN @ + 1 ELSE @,
                   ![k].votes_against = IF vote = "against" THEN @ + 1 ELSE @,
                   ![k].abstentions =
                       IF vote \notin {"for", "against"} THEN @ + 1 ELSE @],
             ret |-> "True"]

\* Governance.cast_vote: [proposals, ret].
cast_vote(proposals, proposal_id, voter_id, vote) ==
    LET k == get_proposal(proposals, proposal_id)
    IN IF k = 0 \/ voter_id \in proposals[k].voters
       THEN [proposals |-> proposals, ret |-> "False"]
       ELSE [proposals |->
                [proposals EXCEPT
                   ![k].voters = @ \cup {voter_id},
                   ![k].votes_for = IF vote = "for" THEN @ + 1 ELSE @,
                   ![k].votes_against = IF vote = "against" THEN @ + 1 ELSE @,
                   ![k].abstentions =
                       IF vote \notin {"for", "against"} THEN @ + 1 ELSE @],
             ret |-> "True"]

RecentEventsKept == 50

CooperationRate == 5000

ConflictRate == 5000

CooperationLossRate == 3000

Abs(a) == IF a < 0 THEN -a ELSE a

\* The last `kept` entries of a list: events[-kept:].
LastOf(events, kept) ==
    IF Len(events) <= kept THEN events
    ELSE SubSeq(events, Len(events) - kept + 1, Len(events))

\* add_social_event trimming the log before the new event is appended.
add_social_event_trimming_first(c, event_type, impact, description, participants) ==
    LET event == [type |-> event_type, impact |-> impact,
                  description |-> description, participants |-> participants]
        trimmed == IF Len(c.recent_events) > RecentEventsKept
                   THEN LastOf(c.recent_events, RecentEventsKept)
                   ELSE c.recent_events
        appended == Append(trimmed, event)
        mood == Max(0, Min(Scale, c.overall_mood + impact))
    IN IF event_type \in {"help", "alliance_formed", "resource_sharing"}
       THEN [c EXCEPT !.recent_events = appended, !.overall_mood = mood,
               !.cooperation_level =
                   Min(Scale, @ + Mul(Abs(impact), CooperationRate))]
       ELSE IF event_type \in {"betrayal", "conflict", "resource_theft"}
       THEN [c EXCEPT !.recent_events = appended, !.overall_mood = mood,
               !.conflict_level = Min(Scale, @ + Mul(Abs(impact), ConflictRate)),
               !.cooperation_level =
                   Max(0, @ - Mul(Abs(impact), CooperationLossRate))]
       ELSE [c EXCEPT !.recent_events = appended, !.overall_mood = mood]

\* SocialClimate.add_social_event: the climate after the call.  The event's
\* timestamp is left out.
add_social_event(c, event_type, impact, description, participants) ==
    LET event == [type |-> event_type, impact |-> impact,
                  description |-> description, participants |-> participants]
        appended == Append(c.recent_events, event)
        kept == IF Len(appended) > RecentEventsKept
                THEN LastOf(appended, RecentEventsKept)
                ELSE appended
        mood == Max(0, Min(Scale, c.overall_mood + impact))
    IN IF event_type \in {"help", "alliance_formed", "resource_sharing"}
       THEN [c EXCEPT !.recent_events = kept, !.overall_mood = mood,
               !.cooperation_level =
                   Min(Scale, @ + Mul(Abs(impact), CooperationRate))]
       ELSE IF event_type \in {"betrayal", "conflict", "resource_theft"}
       THEN [c EXCEPT !.recent_events = kept, !.overall_mood = mood,
               !.conflict_level = Min(Scale, @ + Mul(Abs(impact), ConflictRate)),
               !.cooperation_level =
                   Max(0, @ - Mul(Abs(impact), CooperationLossRate))]
       ELSE [c EXCEPT !.recent_events = kept, !.overall_mood = mood]

\* ------------------------------------------------------------------------
\* Bounds and inputs
\* ------------------------------------------------------------------------

\* Calls made on one NPCState.
MaxSteps == 2

\* Calls made on one TraumaMemory.
MaxMemorySteps == 4

ImpactInputs == {-1000, 0, 500, 3000, 5000, 6000, 8000, 10000, 15000}

HealingInputs == {-1000, 0, 300, 2000, 9000}

Partners == {"bob", "eve"}

TraitNameInputs == {"forgiveness", "to_dict", "charisma"}

TraitValueInputs == {-1000, 9000, 15000}

CategoryInputs == {"leadership", "invalid_skill"}

AmountInputs == {-1000, 1000, 7000}

ActionInputs == {"gather_food", "help_random_npc", "form_alliance"}

DimensionInputs == {"trust", "loyalty", "relationship_history"}

ChangeInputs == {-6000, 4000}

DeltaInputs == {-6000, 2000}

EventInputs == {"saved_from_danger", "betrayed_trust", "made_fun_of"}

InteractionInputs == {"casual_conversation", "betrayal", "flattery"}

OutcomeNames == {"success", "failure"}

\* The outcome_data dicts tried: none; a partner and food gained (more than
\* the hunger there is); a traumatic event with its default impact; a partner
\* and a traumatic event with a negative impact.
NoOutcome == Outcome("", FALSE, 0, FALSE, FALSE, "generic", 0)

OutcomeInputs ==
    {NoOutcome,
     Outcome("bob", TRUE, 9000, FALSE, FALSE, "generic", 0),
     Outcome("", FALSE, 0, TRUE, FALSE, "generic", 0),
     Outcome("eve", FALSE, 0, TRUE, TRUE, "violence", -5000)}

TraumaTypeInputs == {"betrayal", "social_rejection"}

LedgerImpactInputs == {-1000, 600, 3000, 8000, 15000}

LedgerHealingInputs == {-1000, 300, 9000}

ActivityInputs == {"socializing", "storytelling", "jogging"}

ActivityAmountInputs == {-100, 5000}

CounterInputs == {"trust_restoration", "social_acceptance", "lottery_win"}

PositiveImpactInputs == {-1000, 3000, 20000}

ActivityLists ==
    {<<>>, <<"storytelling">>, <<"physical_exercise">>,
     <<"socializing", "jogging">>}

\* The random draws of one advance_day: random.uniform(0.1, 0.2) for hunger,
\* random.uniform(-0.1, 0.1) for energy, random.uniform(0.005, 0.02) for each
\* activity, random.random() < 0.3 and the skill chosen for life wisdom.
DayDraws ==
    {[hunger |-> 1000, energy |-> -1000, healing |-> 50, wisdom |-> FALSE,
      skill |-> "leadership"],
     [hunger |-> 2000, energy |-> 1000, healing |-> 200, wisdom |-> TRUE,
      skill |-> "survival"]}

\* ------------------------------------------------------------------------
\* A TraumaMemory on its own: constructor and apply_healing
\* ------------------------------------------------------------------------

\* NPCState("npc_1"): the defaults of the dataclass.
FreshNPC(p, days_alive) ==
    NPC(p, ExperienceLevels, TraumaState, <<>>,
        [health |-> DefaultHealth, hunger_level |-> DefaultHunger,
         energy_level |-> DefaultEnergy],
        [npc_id |-> "npc_1", name |-> default_name("npc_1"),
         age |-> DefaultAge, days_alive |-> days_alive,
         last_action |-> "None", last_action_success |-> "None"])

\* The variables as one NPCState value, and the assignment of one to them.
Self == NPC(personality, experience, trauma, relationships, physical, game)

Becomes(n) ==
    /\ personality' = n.personality
    /\ experience' = n.experience
    /\ trauma' = n.trauma
    /\ relationships' = n.relationships
    /\ physical' = n.physical
    /\ game' = n.game

Starts(n) ==
    /\ personality = n.personality
    /\ experience = n.experience
    /\ trauma = n.trauma
    /\ relationships = n.relationships
    /\ physical = n.physical
    /\ game = n.game

InitMemory ==
    /\ memory = <<>>
    /\ persist = NoPersist
    /\ world = WorldState
    /\ Starts(FreshNPC(Archetypes.balanced_human, 0))
    /\ call = NoCall
    /\ steps = 0

\* TraumaMemory(event_type='betrayal', original_impact=o, current_impact=c, ...)
NewTraumaMemory ==
    /\ memory = <<>>
    /\ steps < MaxMemorySteps
    /\ \E o \in ImpactInputs, c \in ImpactInputs :
         /\ IF post_init_raises(o, c, 25)
            THEN /\ memory' = memory
                 /\ call' = Call("TraumaMemory", "", "betrayal", o, TRUE,
                                 "ValueError", "None")
            ELSE /\ memory' = <<TraumaMemory("betrayal", o, c, 25, "d", <<>>)>>
                 /\ call' = Call("TraumaMemory", "", "betrayal", o, TRUE, "ok",
                                 "TraumaMemory")
    /\ steps' = steps + 1
    /\ UNCHANGED <<world, npc, persist>>

\* memory.apply_healing(a, "therapy_session")
MemoryApplyHealing ==
    /\ memory /= <<>>
    /\ steps < MaxMemorySteps
    /\ \E a \in HealingInputs :
         LET r == apply_healing(memory[1], a, "therapy_session")
         IN /\ memory' = <<r.m>>
            /\ call' = Call("apply_healing", "", "therapy_session", a, TRUE,
                            r.outcome, "None")
    /\ steps' = steps + 1
    /\ UNCHANGED <<world, npc, persist>>

NextMemory == NewTraumaMemory \/ MemoryApplyHealing

SpecMemory == InitMemory /\ [][NextMemory]_vars

\* ------------------------------------------------------------------------
\* One NPCState and the calls made on it and on its parts
\* ------------------------------------------------------------------------

\* npc = NPCState(npc_id, personality=..., days_alive=...)
Init ==
    /\ memory = <<>>
    /\ persist = NoPersist
    /\ world = WorldState
    /\ \/ Starts(FreshNPC(Archetypes.balanced_human, 0))
       \/ Starts(FreshNPC(Archetypes.social_leader, DaysPerYear - 1))
    /\ call = NoCall
    /\ steps = 0

\* What every call does besides its own effect.
Step ==
    /\ steps < MaxSteps
    /\ steps' = steps + 1
    /\ UNCHANGED <<world, memory, persist>>

\* npc.personality.set_trait(name, value)
SetTrait ==
    /\ Step
    /\ \E name \in TraitNameInputs, value \in TraitValueInputs :
         LET r == set_trait(personality, name, value)
         IN /\ personality' = r.p
            /\ call' = Call("set_trait", "", name, value, TRUE, r.outcome, "None")
    /\ UNCHANGED <<experience, trauma, relationships, physical, game>>

\* npc.personality.get_trait(name)
GetTrait ==
    /\ Step
    /\ \E name \in TraitNameInputs :
         LET r == get_trait(personality, name)
         IN call' = Call("get_trait", "", name, r.value, TRUE, r.outcome, r.ret)
    /\ UNCHANGED npc

\* npc.experience.gain_experience(category, amount, "training")
GainExperience ==
    /\ Step
    /\ \E category \in CategoryInputs, amount \in AmountInputs :
         LET r == gain_experience(experience, category, amount, "training", TRUE)
         IN /\ experience' = r.e
            /\ call' = Call("gain_experience", "", category, amount, TRUE,
                            r.outcome,
                            IF r.outcome /= "ok" THEN "None"
                            ELSE IF r.significant THEN "True" ELSE "False")
    /\ UNCHANGED <<personality, trauma, relationships, physical, game>>

\* npc.experience.gain_experience_from_action(action, success)
GainExperienceFromAction ==
    /\ Step
    /\ \E action \in {"gather_food", "form_alliance"}, success \in BOOLEAN :
         LET r == gain_experience_from_action(experience, action, success)
         IN /\ experience' = r.e
            /\ call' = Call("gain_experience_from_action", "", action, 0,
                            success, "ok", "dict")
    /\ UNCHANGED <<personality, trauma, relationships, physical, game>>

\* npc.relationships.get_relationship(partner)
GetRelationship ==
    /\ Step
    /\ \E partner \in Partners :
         /\ relationships' = get_relationship(relationships, partner)
         /\ call' = Call("get_relationship", partner, "", 0, TRUE, "ok",
                         "RelationshipDimensions")
    /\ UNCHANGED <<personality, experience, trauma, physical, game>>

\* npc.relationships.update_relationship(partner, dimension, change, "gossip")
UpdateRelationship ==
    /\ Step
    /\ \E partner \in Partners, dimension \in DimensionInputs,
          change \in DeltaInputs :
         LET r == update_relationship(relationships, partner, dimension, change,
                                      "gossip")
         IN /\ relationships' = r.rels
            /\ call' = Call("update_relationship", partner, dimension, change,
                            TRUE, r.outcome, "None")
    /\ UNCHANGED <<personality, experience, trauma, physical, game>>

\* npc.relationships.apply_relationship_event(partner, event_type)
ApplyRelationshipEvent ==
    /\ Step
    /\ \E partner \in Partners, event_type \in EventInputs :
         LET r == apply_relationship_event(relationships, partner, event_type,
                                           Scale)
         IN /\ relationships' = r.rels
            /\ call' = Call("apply_relationship_event", partner, event_type,
                            Scale, TRUE, r.outcome, "None")
    /\ UNCHANGED <<personality, experience, trauma, physical, game>>

\* npc.update_physical_state(health_change=c, hunger_change=-c, energy_change=c)
UpdatePhysicalState ==
    /\ Step
    /\ \E c \in ChangeInputs :
         /\ physical' = update_physical_state(physical, c, -c, c)
         /\ call' = Call("update_physical_state", "", "", c, TRUE, "ok", "None")
    /\ UNCHANGED <<personality, experience, trauma, relationships, game>>

\* npc.perform_action(action, success, outcome_data)
PerformAction ==
    /\ Step
    /\ \E action \in ActionInputs, success \in BOOLEAN,
          outcome_data \in OutcomeInputs :
         LET r == perform_action(Self, action, success, outcome_data)
         IN /\ Becomes(r.npc)
            /\ call' = Call("perform_action", outcome_data.target_npc, action,
                            outcome_data.trauma_impact, success, r.outcome,
                            IF r.outcome = "ok" THEN "dict" ELSE "None")

\* npc.interact_with_npc(partner, interaction_type, outcome)
InteractWithNpc ==
    /\ Step
    /\ \E partner \in Partners, interaction_type \in InteractionInputs,
          outcome \in OutcomeNames :
         LET r == interact_with_npc(Self, partner, interaction_type, outcome)
         IN /\ Becomes(r.npc)
            /\ call' = Call("interact_with_npc", partner, interaction_type, 0,
                            outcome = "success", r.outcome, r.ret)

\* npc.advance_day(activities)
AdvanceDay ==
    /\ Step
    /\ \E activities \in ActivityLists, draw \in DayDraws :
         LET r == advance_day(Self, activities, draw.hunger, draw.energy,
                              [k \in 1..Len(activities) |-> draw.healing],
                              draw.wisdom, draw.skill)
         IN /\ Becomes(r.npc)
            /\ call' = Call("advance_day", "", activities, Len(activities), TRUE,
                            r.outcome, "None")

\* npc.trauma.add_trauma(event_type, impact, npc.age, "d")
AddTrauma ==
    /\ Step
    /\ \E event_type \in TraumaTypeInputs, impact \in LedgerImpactInputs :
         LET r == add_trauma(trauma, event_type, impact, game.age, "d", <<>>)
         IN /\ trauma' = r.t
            /\ call' = Call("add_trauma", "", event_type, impact, TRUE,
                            r.outcome, "None")
    /\ UNCHANGED <<personality, experience, relationships, physical, game>>

\* npc.trauma.memories[i].apply_healing(a, "therapy_session")
ApplyHealing ==
    /\ Step
    /\ \E i \in 1..Len(trauma.memories), a \in LedgerHealingInputs :
         LET r == apply_healing(trauma.memories[i], a, "therapy_session")
         IN /\ trauma' = [trauma EXCEPT !.memories[i] = r.m]
            /\ call' = Call("apply_healing", "", "therapy_session", a, TRUE,
                            r.outcome, "None")
    /\ UNCHANGED <<personality, experience, relationships, physical, game>>

\* npc.trauma.apply_daily_healing(npc.personality, days_passed)
ApplyDailyHealing ==
    /\ Step
    /\ \E days_passed \in {1, 365} :
         LET r == apply_daily_healing(trauma, personality, days_passed)
         IN /\ trauma' = r.t
            /\ call' = Call("apply_daily_healing", "", "", days_passed, TRUE,
                            r.outcome, "None")
    /\ UNCHANGED <<personality, experience, relationships, physical, game>>

\* npc.trauma.apply_activity_healing(activity, amount, npc.personality)
ApplyActivityHealing ==
    /\ Step
    /\ \E activity \in ActivityInputs, amount \in ActivityAmountInputs :
         LET r == apply_activity_healing(trauma, activity, amount, personality)
         IN /\ trauma' = r.t
            /\ call' = Call("apply_activity_healing", "", activity, amount, TRUE,
                            r.outcome, "None")
    /\ UNCHANGED <<personality, experience, relationships, physical, game>>

\* npc.trauma.apply_counter_experience_healing(name, positive_impact, "d")
ApplyCounterExperienceHealing ==
    /\ Step
    /\ \E name \in CounterInputs, positive_impact \in PositiveImpactInputs :
         LET r == apply_counter_experience_healing(trauma, name, positive_impact)
         IN /\ trauma' = r.t
            /\ call' = Call("apply_counter_experience_healing", "", name,
                            positive_impact, TRUE, r.outcome, "None")
    /\ UNCHANGED <<personality, experience, relationships, physical, game>>

Next ==
    \/ SetTrait
    \/ GetTrait
    \/ GainExperience
    \/ GainExperienceFromAction
    \/ GetRelationship
    \/ UpdateRelationship
    \/ ApplyRelationshipEvent
    \/ UpdatePhysicalState
    \/ PerformAction
    \/ InteractWithNpc
    \/ AdvanceDay
    \/ AddTrauma
    \/ ApplyHealing
    \/ ApplyDailyHealing
    \/ ApplyActivityHealing
    \/ ApplyCounterExperienceHealing

Spec == Init /\ [][Next]_vars

\* ------------------------------------------------------------------------
\* The years of one NPCState created with days_alive = 0
\* ------------------------------------------------------------------------

\* Days lived: two birthdays and a day.
MaxDays == 731

\* Calls other than advance_day made in one life.
MaxDayCalls == 1

\* The days on which those calls are tried: the eve of a birthday and the
\* birthday.
CallDays ==
    {d \in 0..MaxDays : d % DaysPerYear \in {DaysPerYear - 1, 0}}

\* npc = NPCState("npc_1")
InitDays ==
    /\ memory = <<>>
    /\ persist = NoPersist
    /\ world = WorldState
    /\ Starts(FreshNPC(Archetypes.balanced_human, 0))
    /\ call = NoCall
    /\ steps = 0

\* npc.advance_day()
LiveADay ==
    /\ game.days_alive < MaxDays
    /\ \E draw \in DayDraws :
         LET r == advance_day(Self, <<>>, draw.hunger, draw.energy, <<>>,
                              draw.wisdom, draw.skill)
         IN /\ Becomes(r.npc)
            /\ call' = Call("advance_day", "", "", 0, TRUE, r.outcome, "None")
    /\ UNCHANGED <<world, memory, persist, steps>>

\* What a call other than advance_day does besides its own effect.
DayCall ==
    /\ game.days_alive \in CallDays
    /\ steps < MaxDayCalls
    /\ steps' = steps + 1
    /\ UNCHANGED <<world, memory, persist>>

\* npc.perform_action(ActionType.GATHER_FOOD, success)
PerformActionThatDay ==
    /\ DayCall
    /\ \E success \in BOOLEAN :
         LET r == perform_action(Self, "gather_food", success, NoOutcome)
         IN /\ Becomes(r.npc)
            /\ call' = Call("perform_action", "", "gather_food", 0, success,
                            r.outcome, "dict")

\* npc.interact_with_npc("bob", interaction_type, "success")
InteractThatDay ==
    /\ DayCall
    /\ \E interaction_type \in {"casual_conversation", "betrayal"} :
         LET r == interact_with_npc(Self, "bob", interaction_type, "success")
         IN /\ Becomes(r.npc)
            /\ call' = Call("interact_with_npc", "bob", interaction_type, 0,
                            TRUE, r.outcome, r.ret)

NextDays == LiveADay \/ PerformActionThatDay \/ InteractThatDay

SpecDays == InitDays /\ [][NextDays]_vars

\* ------------------------------------------------------------------------
\* Actions performed on one ExperienceLevels
\* ------------------------------------------------------------------------

\* gain_experience_from_action calls made on one tracker.
MaxActions == 2

\* The level every category starts from: none, half, just below the cap and
\* the cap.
StartLevels == {0, 5000, 9990, Scale}

\* experience = ExperienceLevels(leadership=l, ..., combat=l)
InitLearning ==
    /\ memory = <<>>
    /\ persist = NoPersist
    /\ world = WorldState
    /\ \E l \in StartLevels :
         Starts([FreshNPC(Archetypes.balanced_human, 0) EXCEPT
                    !.experience.levels = [c \in Categories |-> l]])
    /\ call = NoCall
    /\ steps = 0

\* experience.gain_experience_from_action(action, success)
LearnFromAction ==
    /\ steps < MaxActions
    /\ steps' = steps + 1
    /\ \E action \in ActionType, success \in BOOLEAN :
         LET r == gain_experience_from_action(experience, action, success)
         IN /\ experience' = r.e
            /\ call' = Call("gain_experience_from_action", "", action, 0,
                            success, "ok", "dict")
    /\ UNCHANGED <<world, memory, personality, trauma, relationships, physical, game,
                   persist>>

NextLearning == LearnFromAction

SpecLearning == InitLearning /\ [][NextLearning]_vars

\* ------------------------------------------------------------------------
\* An NPCState written with to_dict and read back with from_dict
\* ------------------------------------------------------------------------

\* The dict without one key.
Without(data, key) == [k \in DOMAIN data \ {key} |-> data[k]]

\* Calls that build up the state of npc before it is written.
Prepare ==
    /\ persist.stage = "none"
    /\ \/ SetTrait
       \/ GainExperience
       \/ InteractWithNpc
       \/ AddTrauma
       \/ ApplyHealing

\* record = npc.to_dict()
ToDict ==
    /\ persist.stage = "none"
    /\ LET r == npc_to_dict(Self)
       IN /\ persist' = [persist EXCEPT
                            !.stage = IF r.outcome = "ok" THEN "saved"
                                      ELSE "failed",
                            !.record = r.data,
                            !.outcome = r.outcome]
          /\ call' = Call("to_dict", "", "", 0, TRUE, r.outcome,
                          IF r.outcome = "ok" THEN "dict" ELSE "None")
    /\ UNCHANGED <<world, memory, npc, steps>>

\* The record as an older or a hand-written store holds it: one field is
\* absent, of the record itself, of one of its parts, of its first memory or
\* of a partner's entry.
LoseField ==
    /\ persist.stage = "saved"
    /\ persist.lost = ""
    /\ \/ \E k \in DOMAIN persist.record :
            persist' = [persist EXCEPT !.record = Without(@, k), !.lost = k]
       \/ \E part \in {"personality", "experience", "trauma"} :
            \E k \in DOMAIN persist.record[part] :
               persist' = [persist EXCEPT !.record[part] = Without(@, k),
                                          !.lost = part \o "." \o k]
       \/ /\ persist.record.trauma.memories /= <<>>
          /\ \E k \in DOMAIN persist.record.trauma.memories[1] :
               persist' = [persist EXCEPT
                              !.record.trauma.memories[1] = Without(@, k),
                              !.lost = "trauma.memories[0]." \o k]
       \/ \E p \in DOMAIN persist.record.relationships :
            \E k \in DOMAIN persist.record.relationships[p] :
               persist' = [persist EXCEPT
                              !.record.relationships[p] = Without(@, k),
                              !.lost = "relationships." \o p \o "." \o k]
    /\ UNCHANGED <<world, memory, npc, call, steps>>

\* other = NPCState.from_dict(record)
FromDict ==
    /\ persist.stage = "saved"
    /\ LET r == npc_from_dict(persist.record)
       IN /\ persist' = [persist EXCEPT !.stage = "loaded", !.other = r.n,
                                        !.outcome = r.outcome]
          /\ call' = Call("from_dict", "", "", 0, TRUE, r.outcome,
                          IF r.outcome = "ok" THEN "NPCState" ELSE "None")
    /\ UNCHANGED <<world, memory, npc, steps>>

\* A call on the reconstructed NPCState: made once, after a from_dict that
\* returned.
OtherStep ==
    /\ persist.stage = "loaded"
    /\ persist.outcome = "ok"
    /\ ~persist.touched
    /\ UNCHANGED <<world, memory, steps>>

\* other.experience.gain_experience("leadership", amount, "training"): the
\* record appended to other's history list is appended to npc's when the
\* two are one list.
OtherGainExperience ==
    /\ OtherStep
    /\ \E amount \in {-1000, 1000} :
         LET r == gain_experience(persist.other.experience, "leadership",
                                  amount, "training", TRUE)
         IN /\ persist' = [persist EXCEPT !.other.experience = r.e,
                                          !.touched = TRUE]
            /\ experience' =
                 IF shared_lists(persist.record).experience_history
                 THEN [experience EXCEPT
                          !.experience_history = r.e.experience_history]
                 ELSE experience
            /\ call' = Call("other.gain_experience", "", "leadership", amount,
                            TRUE, r.outcome, "None")
    /\ UNCHANGED <<personality, trauma, relationships, physical, game>>

\* other.relationships.update_relationship(partner, "trust", 0.4, "gossip")
OtherUpdateRelationship ==
    /\ OtherStep
    /\ \E partner \in Partners :
         LET r == update_relationship(persist.other.relationships, partner,
                                      "trust", 4000, "gossip")
         IN /\ persist' = [persist EXCEPT !.other.relationships = r.rels,
                                          !.touched = TRUE]
            /\ relationships' =
                 IF partner \in shared_lists(persist.record).relationship_history
                 THEN [relationships EXCEPT
                          ![partner].relationship_history =
                              r.rels[partner].relationship_history]
                 ELSE relationships
            /\ call' = Call("other.update_relationship", partner, "trust", 4000,
                            TRUE, r.outcome, "None")
    /\ UNCHANGED <<personality, experience, trauma, physical, game>>

\* other.trauma.memories[i].apply_healing(0.03, "therapy_session")
OtherApplyHealing ==
    /\ OtherStep
    /\ \E i \in 1..Len(persist.other.trauma.memories) :
         LET r == apply_healing(persist.other.trauma.memories[i], 300,
                                "therapy_session")
         IN /\ persist' = [persist EXCEPT !.other.trauma.memories[i] = r.m,
                                          !.touched = TRUE]
            /\ trauma' =
                 IF i \in shared_lists(persist.record).healing_activities
                 THEN [trauma EXCEPT
                          !.memories[i].healing_activities =
                              r.m.healing_activities]
                 ELSE trauma
            /\ call' = Call("other.apply_healing", "", "therapy_session", 300,
                            TRUE, r.outcome, "None")
    /\ UNCHANGED <<personality, experience, relationships, physical, game>>

NextPersist ==
    \/ Prepare
    \/ ToDict
    \/ LoseField
    \/ FromDict
    \/ OtherGainExperience
    \/ OtherUpdateRelationship
    \/ OtherApplyHealing

SpecPersist == Init /\ [][NextPersist]_vars

\* ------------------------------------------------------------------------
\* One Governance: proposals and the votes cast on them (SpecGovernance)
\* ------------------------------------------------------------------------

\* Proposals added to one Governance.
MaxProposals == 2

ProposalIds == {"rule_001", "rule_002"}

Voters == {"alice", "bob"}

VoteInputs == {"for", "against", "maybe"}

InitGovernance ==
    /\ memory = <<>>
    /\ Starts(FreshNPC(Archetypes.balanced_human, 0))
    /\ persist = NoPersist
    /\ world = WorldState
    /\ call = NoCall
    /\ steps = 0

AddProposal ==
    /\ Len(world.governance.active_proposals) < MaxProposals
    /\ \E proposal_id \in ProposalIds :
         /\ world' = [world EXCEPT !.governance.active_proposals =
                         add_proposal(@, proposal_id, "bob", "rule", "d", 10)]
         /\ call' = Call("add_proposal", "bob", proposal_id, 0, TRUE, "ok", "None")
    /\ UNCHANGED <<memory, npc, persist, steps>>

CastVote ==
    /\ \E proposal_id \in ProposalIds, voter_id \in Voters, vote \in VoteInputs :
         LET r == cast_vote(world.governance.active_proposals, proposal_id,
                            voter_id, vote)
         IN /\ world' = [world EXCEPT !.governance.active_proposals = r.proposals]
            /\ call' = Call("cast_vote", voter_id, proposal_id, 0, vote = "for",
                            "ok", r.ret)
    /\ UNCHANGED <<memory, npc, persist, steps>>

NextGovernance == AddProposal \/ CastVote

SpecGovernance == InitGovernance /\ [][NextGovernance]_vars

\* ------------------------------------------------------------------------
\* One SocialClimate and the events added to it (SpecClimate)
\* ------------------------------------------------------------------------

\* Calls of add_social_event made on one SocialClimate.
MaxEvents == 52

\* Events of a log that are not of the everyday kind.
MaxOddEvents == 1

EverydayEvent == [type |-> "cooperation", impact |-> 500]

OddEvents ==
    {[type |-> "help", impact |-> 1000], [type |-> "betrayal", impact |-> -2000]}

OddEventsIn(events) ==
    Cardinality({k \in 1..Len(events) : events[k].type /= EverydayEvent.type})

InitClimate ==
    /\ memory = <<>>
    /\ Starts(FreshNPC(Archetypes.balanced_human, 0))
    /\ persist = NoPersist
    /\ world = WorldState
    /\ call = NoCall
    /\ steps = 0

\* The caller numbers its events: the description of the k-th event added
\* is k.
AddSocialEvent ==
    /\ steps < MaxEvents
    /\ steps' = steps + 1
    /\ \E kind \in {EverydayEvent} \cup
                    {e \in OddEvents :
                        OddEventsIn(world.social_climate.recent_events)
                            < MaxOddEvents} :
         /\ world' = [world EXCEPT !.social_climate =
                         add_social_event(@, kind.type, kind.impact, steps + 1,
                                          <<>>)]
         /\ call' = Call("add_social_event", "", kind.type, kind.impact, TRUE,
                         "ok", "None")
    /\ UNCHANGED <<memory, npc, persist>>

NextClimate == AddSocialEvent

SpecClimate == InitClimate /\ [][NextClimate]_vars

\* ------------------------------------------------------------------------
\* One memory made by add_trauma, healed again and again (SpecHealing)
\* ------------------------------------------------------------------------

AddedImpacts == {0, 3000, 8000, 15000}

\* Healing amounts in tenths of a unit: 0.00004, 0.03, 0.2 and 0.9, and two
\* that are not strictly positive.
FixedAmounts == {-10000, 0, 4, 3000, 20000, 90000}

InitHealing ==
    /\ \E event_type \in TraumaTypeInputs, impact \in AddedImpacts :
         memory = add_trauma(TraumaState, event_type, impact, DefaultAge, "d",
                             <<>>).t.memories
    /\ Starts(FreshNPC(Archetypes.balanced_human, 0))
    /\ persist = NoPersist
    /\ world = WorldState
    /\ call = NoCall
    /\ steps = 0

\* One more apply_healing call on the memory.  The amount and source of the
\* first call are kept by the later ones until the memory is fully healed;
\* after that any amount and source are tried.
ApplyHealingAgain ==
    /\ \E healing_amount \in FixedAmounts,
          healing_source \in {"therapy_session", "natural_healing"} :
         /\ (call.op = "apply_healing" /\ ~is_fully_healed(memory[1]))
               => healing_amount = call.amount /\ healing_source = call.name
         /\ LET r == apply_healing_of(memory[1], healing_amount, healing_source)
            IN /\ memory' = <<r.m>>
               /\ call' = Call("apply_healing", "", healing_source,
                               healing_amount, TRUE, r.outcome, "None")
    /\ UNCHANGED <<npc, persist, world, steps>>

NextHealing == ApplyHealingAgain

\* The calls are repeated: a call that can be made is made.
SpecHealing == InitHealing /\ [][NextHealing]_vars /\ WF_vars(NextHealing)

\* ------------------------------------------------------------------------
\* Properties of a TraumaMemory (checked under SpecMemory)
\* ------------------------------------------------------------------------

\* Every TraumaMemory that exists: the one built directly and the ledger's.
AllMemories == memory \o trauma.memories

\* C1: the current_impact of every TraumaMemory is at least the memory's
\* scar_threshold and at most its original_impact, whatever healing calls
\* have been made.
C1_ImpactWithinScarAndOriginal ==
    \A i \in 1..Len(AllMemories) :
        /\ scar_threshold(AllMemories[i]) <= AllMemories[i].current_impact
        /\ AllMemories[i].current_impact <= AllMemories[i].original_impact

\* C9: no step raises the current_impact of an existing memory or changes
\* its original_impact; memories are only ever appended.
C9_ImpactNeverRises ==
    [][/\ Len(AllMemories') >= Len(AllMemories)
       /\ \A i \in 1..Len(AllMemories) :
            /\ AllMemories'[i].current_impact <= AllMemories[i].current_impact
            /\ AllMemories'[i].original_impact = AllMemories[i].original_impact
      ]_vars

\* C10 as stated: a memory with original_impact 0.8 has scar_threshold 0.24
\* (30% of 0.8) and apply_healing calls never leave its current_impact
\* below 0.24.
C10_ScarIsThirtyPercent ==
    \A i \in 1..Len(memory) :
        memory[i].original_impact = 8000 =>
            /\ scar_threshold(memory[i]) = 2400
            /\ (call.op = "apply_healing" /\ call.outcome = "ok"
                    => memory[i].current_impact >= 2400)

\* C10 amended: a memory with original_impact 0.8 has scar_threshold 0.08
\* (10% of 0.8) and apply_healing calls never leave its current_impact
\* below 0.08.
C10_ScarIsTenPercent ==
    \A i \in 1..Len(memory) :
        memory[i].original_impact = 8000 =>
            /\ scar_threshold(memory[i]) = 800
            /\ (call.op = "apply_healing" /\ call.outcome = "ok"
                    => memory[i].current_impact >= 800)

\* C10 witness: a memory created at 0.8 has been healed twice and rests at
\* 0.08.
C10_HealedDownToScar ==
    /\ memory /= <<>>
    /\ memory[1].original_impact = 8000
    /\ Len(memory[1].healing_activities) >= 2
    /\ memory[1].current_impact = 800
    /\ call.op = "apply_healing"

\* C11: the scar threshold is 0 for original_impact <= 0.5, 10% of
\* original_impact for 0.5 < original_impact <= 1.0 and 30% of it above
\* 1.0; and every memory with original_impact > 0.5 has a strictly positive
\* current_impact at all times.
C11_ScarBandsKeepSevereTraumaPositive ==
    \A i \in 1..Len(AllMemories) :
        LET m == AllMemories[i]
        IN /\ m.original_impact <= 5000 => scar_threshold(m) = 0
           /\ (5000 < m.original_impact /\ m.original_impact <= 10000)
                => scar_threshold(m) = m.original_impact \div 10
           /\ m.original_impact > 10000
                => scar_threshold(m) = (3 * m.original_impact) \div 10
           /\ m.original_impact > 5000 => m.current_impact > 0

\* ------------------------------------------------------------------------
\* Properties of one NPCState (checked under Spec)
\* ------------------------------------------------------------------------

InUnit(x) == 0 <= x /\ x <= Scale

\* C2: after any sequence of calls every personality trait, every skill
\* level, every relationship dimension of every partner and every vital
\* (health, hunger, energy) lies within [0, 1].
C2_BoundedAttributes ==
    /\ \A t \in Traits : InUnit(personality[t])
    /\ \A c \in Categories : InUnit(experience.levels[c])
    /\ \A partner \in DOMAIN relationships :
         \A d \in Dimensions : InUnit(relationships[partner][d])
    /\ InUnit(physical.health)
    /\ InUnit(physical.hunger_level)
    /\ InUnit(physical.energy_level)

\* C2 witness: update_physical_state was asked to raise health past 1 and
\* holds it at 1, after a change that would have taken a relationship
\* dimension below 0 left it at 0.
C2_HealthHeldAtOne ==
    /\ call.op = "update_physical_state"
    /\ call.amount > 0
    /\ physical.health = Scale
    /\ \E partner \in DOMAIN relationships :
         \E k \in 1..Len(relationships[partner].relationship_history) :
            LET rec == relationships[partner].relationship_history[k]
            IN rec.old_value + rec.change < 0 /\ rec.new_value = 0

\* C3: a perform_action call that raises leaves the whole NPCState as it
\* was before the call: last-action bookkeeping, skill levels, experience
\* history, vitals, relationship entries and the trauma list.
C3_PerformActionAllOrNothing ==
    [][call'.op = "perform_action" /\ call'.outcome /= "ok"
          => UNCHANGED npc]_vars

\* C4: update_relationship with an unknown dimension name and
\* apply_relationship_event with an unknown event name fail and leave the
\* matrix as it was: no value changed, no history record, no entry created.
C4_UnknownNameLeavesMatrix ==
    [][(\/ call'.op = "update_relationship" /\ call'.name \notin Dimensions
        \/ /\ call'.op = "apply_relationship_event"
           /\ call'.name \notin DOMAIN relationship_events)
          => call'.outcome /= "ok" /\ relationships' = relationships]_vars

\* C5: gain_experience with an unknown category or a negative amount raises
\* and leaves every skill level and the experience history as they were.
C5_RejectedGainChangesNothing ==
    [][call'.op = "gain_experience"
           /\ (call'.name \notin Categories \/ call'.amount < 0)
          => call'.outcome = "ValueError" /\ experience' = experience]_vars

\* C5 witness: a gain of a negative amount in a known category was rejected
\* after an earlier gain had been recorded.
C5_NegativeGainRejected ==
    /\ call.op = "gain_experience"
    /\ call.name \in Categories
    /\ call.amount < 0
    /\ call.outcome = "ValueError"
    /\ Len(experience.experience_history) > 0

\* C6: interact_with_npc with an interaction type it does not know returns
\* the error result without raising and changes nothing: no relationship
\* entry created or changed, no trauma memory added.
C6_UnknownInteractionChangesNothing ==
    [][call'.op = "interact_with_npc"
           /\ call'.name \notin DOMAIN interaction_effects
          => /\ call'.outcome = "ok"
             /\ call'.ret = "error"
             /\ UNCHANGED npc]_vars

\* C6 witness: an unknown interaction type was answered with the error
\* result for a partner the matrix does not hold.
C6_UnknownInteractionAnswered ==
    /\ call.op = "interact_with_npc"
    /\ call.name \notin DOMAIN interaction_effects
    /\ call.ret = "error"
    /\ call.target \notin DOMAIN relationships

\* C7: set_trait raises and leaves the traits as they were for every name
\* that is not one of the 8 declared traits and for every value outside
\* [0, 1]; get_trait raises for every name that is not a declared trait.
C7_OnlyDeclaredTraits ==
    [][/\ call'.op = "set_trait"
             /\ (call'.name \notin Traits \/ ~InUnit(call'.amount))
          => call'.outcome = "ValueError" /\ personality' = personality
       /\ call'.op = "get_trait" /\ call'.name \notin Traits
          => call'.outcome = "ValueError"]_vars

\* The entry of partner p in the matrix once it has been looked up.
Entry(rels, p) == get_relationship(rels, p)[p]

\* An entry with the five values of a new RelationshipDimensions().
IsFresh(r) ==
    /\ r.trust = 5000 /\ r.respect = 5000 /\ r.affection = 5000
    /\ r.dependency = 0 /\ r.fear = 0

\* C15: an entry with trust = respect = affection = 0.5 and dependency =
\* fear = 0 has the type "neutral", and after saved_from_danger is applied to
\* it once with strength 1.0 its type is "friend", "trusted ally" or "close
\* friend".
C15_SavedFromDangerMakesFriend ==
    [][(/\ call'.op = "apply_relationship_event"
        /\ call'.name = "saved_from_danger"
        /\ call'.amount = Scale
        /\ IsFresh(Entry(relationships, call'.target)))
          => /\ get_relationship_type(Entry(relationships, call'.target))
                  = "neutral"
             /\ call'.outcome = "ok"
             /\ get_relationship_type(relationships'[call'.target])
                  \in {"friend", "trusted ally", "close friend"}]_vars

\* C15 witness: saved_from_danger has just been applied to a new entry (its
\* history holds the four updates of that one event), which is now a friend.
C15_FreshEntryBecameFriend ==
    /\ call.op = "apply_relationship_event"
    /\ call.name = "saved_from_danger"
    /\ Len(relationships[call.target].relationship_history) = 4
    /\ get_relationship_type(relationships[call.target]) = "friend"

\* C16: get_relationship on an unknown partner inserts an entry with trust =
\* respect = affection = 0.5, dependency = fear = 0 and an empty history; on a
\* known partner it leaves the entry as it is; the entries of all other
\* partners are unchanged; and no call of any kind removes an entry.
C16_GetOrCreateFrame ==
    [][/\ DOMAIN relationships \subseteq DOMAIN relationships'
       /\ call'.op = "get_relationship"
            => /\ call'.outcome = "ok"
               /\ DOMAIN relationships'
                    = DOMAIN relationships \cup {call'.target}
               /\ call'.target \notin DOMAIN relationships
                    => relationships'[call'.target]
                         = [trust |-> 5000, respect |-> 5000,
                            affection |-> 5000, dependency |-> 0, fear |-> 0,
                            relationship_history |-> <<>>]
               /\ \A q \in DOMAIN relationships :
                    relationships'[q] = relationships[q]]_vars

\* C16 witness: get_relationship has just been called on a known partner
\* whose entry had been updated before.
C16_KnownPartnerLookedUp ==
    /\ call.op = "get_relationship"
    /\ relationships[call.target].relationship_history /= <<>>

\* C17: update_dimension sets the named dimension to
\* clamp(old + delta * (1 + closeness), 0, 1) with closeness =
\* max(0, (affection + trust + dependency) / 3 - 0.5 * fear) taken from the
\* values before the update and lying in [0, 1]; the other four dimensions of
\* the entry and the entries of the other partners are unchanged.
C17_UpdateDimensionScaledByCloseness ==
    [][(call'.op = "update_relationship" /\ call'.outcome = "ok")
          => LET p == call'.target
                 old == Entry(relationships, p)
                 new == relationships'[p]
                 closeness ==
                     Max(0, RoundDiv(old.affection + old.trust + old.dependency, 3)
                            - Mul(5000, old.fear))
                 target == old[call'.name] + Mul(call'.amount, Scale + closeness)
             IN /\ 0 <= closeness /\ closeness <= Scale
                /\ new[call'.name] =
                     (IF target < 0 THEN 0
                      ELSE IF target > Scale THEN Scale ELSE target)
                /\ \A d \in Dimensions \ {call'.name} : new[d] = old[d]
                /\ \A q \in DOMAIN relationships \ {p} :
                     relationships'[q] = relationships[q]]_vars

\* C17 witness: an update has just been made on an entry that was not new
\* (closeness other than that of a new entry), next to another partner's entry.
C17_UpdatedNextToAnotherPartner ==
    /\ call.op = "update_relationship"
    /\ call.outcome = "ok"
    /\ Cardinality(DOMAIN relationships) = 2
    /\ relationships[call.target][call.name] \notin {0, Scale}

\* C28: an update_dimension call that returns appends exactly one record to
\* the partner's history and leaves the earlier records as they were; the
\* record holds the dimension, the old value, the change scaled by
\* 1 + closeness as it was before clamping, and new = clamp(old + change, 0, 1),
\* also when the clamped value equals the old one.
C28_OneRecordPerUpdate ==
    [][(call'.op = "update_relationship" /\ call'.outcome = "ok")
          => LET old == Entry(relationships, call'.target)
                 new == relationships'[call'.target]
                 record == new.relationship_history[Len(new.relationship_history)]
                 sum == record.old_value + record.change
             IN /\ Len(new.relationship_history)
                     = Len(old.relationship_history) + 1
                /\ SubSeq(new.relationship_history, 1,
                          Len(old.relationship_history))
                     = old.relationship_history
                /\ record.dimension = call'.name
                /\ record.old_value = old[call'.name]
                /\ record.change
                     = Mul(call'.amount, Scale + get_closeness(old))
                /\ record.new_value
                     = (IF sum < 0 THEN 0 ELSE IF sum > Scale THEN Scale ELSE sum)
                /\ record.new_value = new[call'.name]]_vars

\* C28 witness: a second record was appended by an update that the clamp
\* left without effect on the value.
C28_RecordOfAnUpdateWithoutEffect ==
    /\ call.op = "update_relationship"
    /\ call.outcome = "ok"
    /\ LET history == relationships[call.target].relationship_history
       IN /\ Len(history) = 2
          /\ history[2].old_value = history[2].new_value
          /\ history[2].change < 0

\* The entry `old` with the new values of the first k of `records` written
\* to their dimensions, one after the other.
RECURSIVE Replayed(_, _, _)
Replayed(old, records, k) ==
    IF k = 0 THEN old
    ELSE [Replayed(old, records, k - 1) EXCEPT
            ![records[k].dimension] = records[k].new_value]

\* C29: an apply_relationship_event call that returns appends one record per
\* pair of the event's table entry, in the entry's order; the k-th record's
\* old value and closeness multiplier are those of the entry as the first
\* k - 1 records left it, not those of the entry before the event; the entry
\* ends with the values the records give.
C29_DeltasSeeEarlierDeltas ==
    [][(call'.op = "apply_relationship_event" /\ call'.outcome = "ok")
          => LET old == Entry(relationships, call'.target)
                 new == relationships'[call'.target]
                 changes == relationship_events[call'.name]
                 before == Len(old.relationship_history)
                 records == SubSeq(new.relationship_history, before + 1,
                                   Len(new.relationship_history))
             IN /\ Len(records) = Len(changes)
                /\ SubSeq(new.relationship_history, 1, before)
                     = old.relationship_history
                /\ \A k \in 1..Len(changes) :
                     LET seen == Replayed(old, records, k - 1)
                         sum == records[k].old_value + records[k].change
                     IN /\ records[k].dimension = changes[k][1]
                        /\ records[k].old_value = seen[changes[k][1]]
                        /\ records[k].change
                             = Mul(Mul(changes[k][2], call'.amount),
                                   Scale + get_closeness(seen))
                        /\ records[k].new_value
                             = (IF sum < 0 THEN 0
                                ELSE IF sum > Scale THEN Scale ELSE sum)
                /\ \A d \in Dimensions :
                     new[d] = Replayed(old, records, Len(records))[d]]_vars

\* C29 witness: saved_from_danger was applied to a new entry; the change of
\* respect, its second delta, is larger than the closeness of the new entry
\* would make it.
C29_SecondDeltaScaledByUpdatedCloseness ==
    /\ call.op = "apply_relationship_event"
    /\ call.outcome = "ok"
    /\ call.name = "saved_from_danger"
    /\ LET history == relationships[call.target].relationship_history
       IN /\ Len(history) = 4
          /\ history[2].dimension = "respect"
          /\ history[2].change
                > Mul(2000, Scale + get_closeness(RelationshipDimensions))

\* The five tags advance_day heals for.
IsHealingTag(activity) ==
    activity \in {"meditation", "socializing", "crafting", "prayer",
                  "helping_others"}

\* C30: advance_day heals by activity only for the tags meditation,
\* socializing, crafting, prayer and helping_others.  Every healing log entry
\* it appends is natural healing or the healing of one of these tags of the
\* list; the last-used healing activity becomes the last such tag of the list
\* and is unchanged when the list has none; a list without such a tag (with
\* storytelling, or an unknown tag) leaves the ledger as natural daily healing
\* alone leaves it.
C30_OnlyFiveTagsHeal ==
    [][(call'.op = "advance_day" /\ call'.outcome = "ok")
          => LET activities == call'.name
                 healing == SelectSeq(activities, IsHealingTag)
                 sources == {"natural_healing"} \cup
                            {"activity_" \o healing[k] : k \in 1..Len(healing)}
             IN /\ Len(trauma'.memories) = Len(trauma.memories)
                /\ \A k \in 1..Len(trauma.memories) :
                     LET log == trauma.memories[k].healing_activities
                         after == trauma'.memories[k].healing_activities
                     IN /\ Len(after) >= Len(log)
                        /\ SubSeq(after, 1, Len(log)) = log
                        /\ \A j \in (Len(log) + 1)..Len(after) :
                              after[j].source \in sources
                /\ trauma'.last_healing_activity
                     = (IF healing = <<>> THEN trauma.last_healing_activity
                        ELSE healing[Len(healing)])
                /\ healing = <<>>
                     => trauma' = apply_daily_healing(trauma, personality, 1).t]_vars

\* C30 witness: a day with storytelling has passed over a memory, which
\* natural healing alone has lowered; no healing activity was ever used.
C30_StorytellingDayHealsNaturallyOnly ==
    /\ call.op = "advance_day"
    /\ call.outcome = "ok"
    /\ call.name = <<"storytelling">>
    /\ trauma.last_healing_activity = "None"
    /\ \E k \in 1..Len(trauma.memories) :
         /\ Len(trauma.memories[k].healing_activities) = 1
         /\ trauma.memories[k].healing_activities[1].source = "natural_healing"

\* The deltas of a betrayal, as the claim's table of interactions gives them.
BetrayalDeltas ==
    <<<<"trust", -4000>>, <<"affection", -3000>>, <<"fear", 2000>>,
      <<"respect", -2000>>>>

\* C19: interact_with_npc(partner, "betrayal", "success") appends exactly one
\* trauma memory, of type betrayal, with original_impact = current_impact =
\* 0.6 and the partner as its only related npc, and applies the betrayal
\* deltas to the partner's entry; an interaction of any other type or with
\* any other outcome leaves the trauma ledger as it is.
C19_OnlyBetrayalLeavesAMemory ==
    [][call'.op = "interact_with_npc"
          => IF call'.name = "betrayal" /\ call'.success
             THEN LET n == Len(trauma.memories)
                      m == trauma'.memories[n + 1]
                  IN /\ Len(trauma'.memories) = n + 1
                     /\ SubSeq(trauma'.memories, 1, n) = trauma.memories
                     /\ m.event_type = "betrayal"
                     /\ m.original_impact = 6000
                     /\ m.current_impact = 6000
                     /\ m.related_npcs = <<call'.target>>
                     /\ relationships'[call'.target] =
                          apply_changes(Entry(relationships, call'.target),
                                        BetrayalDeltas, Scale,
                                        "betrayal_success", 4).r
             ELSE trauma' = trauma]_vars

\* C19 witness: a successful betrayal has just added its memory to a ledger
\* that already held a memory of another kind.
C19_BetrayalRemembered ==
    /\ call.op = "interact_with_npc"
    /\ call.name = "betrayal"
    /\ call.success
    /\ Len(trauma.memories) = 2
    /\ trauma.memories[1].event_type = "social_rejection"
    /\ trauma.memories[2].original_impact = 6000
    /\ relationships[call.target].fear > 0

\* The trauma types the ledger holds a memory of.
RememberedTypes == {trauma.memories[k].event_type : k \in 1..Len(trauma.memories)}

\* C21: the active-trauma query reports exactly the types whose per-type total
\* (get_trauma_impact) is at or above the 0.1 threshold, each with that total.
C21_ActiveTraumasAreTheTypeTotals ==
    LET active == get_active_traumas(trauma, ActiveThreshold)
    IN /\ DOMAIN active
            = {ty \in RememberedTypes :
                  get_trauma_impact(trauma, ty) >= ActiveThreshold}
       /\ \A ty \in DOMAIN active : active[ty] = get_trauma_impact(trauma, ty)

\* C22: apply_counter_experience_healing(name, positive_impact) lowers every
\* not-fully-healed memory whose trauma type lists the counter event by
\* min(0.6 * positive_impact, 0.8 * current_impact), not below its scar
\* threshold, and touches nothing but its impact and healing log; every other
\* memory is unchanged (all of them when no type lists the name), and a
\* negative positive_impact raises with the ledger unchanged.
C22_CounterHealingFrame ==
    [][call'.op = "apply_counter_experience_healing" =>
         IF call'.amount < 0
         THEN call'.outcome = "ValueError" /\ trauma' = trauma
         ELSE /\ call'.outcome = "ok"
              /\ trauma' = [trauma EXCEPT !.memories = trauma'.memories]
              /\ Len(trauma'.memories) = Len(trauma.memories)
              /\ \A k \in 1..Len(trauma.memories) :
                    LET m == trauma.memories[k]
                        after == trauma'.memories[k]
                        healing_amount ==
                            Min(Mul(call'.amount, CounterImpactRate),
                                Mul(m.current_impact, CounterShareOfCurrent))
                    IN IF /\ m.event_type \in DOMAIN counter_mappings
                          /\ call'.name \in counter_mappings[m.event_type]
                          /\ ~is_fully_healed(m)
                       THEN /\ after.current_impact
                                 = Max(scar_threshold(m),
                                       m.current_impact - healing_amount)
                            /\ [after EXCEPT !.current_impact = m.current_impact,
                                             !.healing_activities =
                                                 m.healing_activities] = m
                       ELSE after = m]_vars

\* C22 witness: a counter event has returned after healing a memory of its
\* type down to a positive scar threshold.
C22_HealedToTheScarByCounterEvent ==
    /\ call.op = "apply_counter_experience_healing"
    /\ call.outcome = "ok"
    /\ \E k \in 1..Len(trauma.memories) :
         LET m == trauma.memories[k]
         IN /\ m.event_type \in DOMAIN counter_mappings
            /\ call.name \in counter_mappings[m.event_type]
            /\ m.healing_activities /= <<>>
            /\ m.current_impact = scar_threshold(m)
            /\ m.current_impact > 0

\* Partners of the matrix whose overall sentiment is above 0.
PositivePartners ==
    {n \in DOMAIN relationships : get_overall_sentiment(relationships[n]) > 0}

\* C23: an empty matrix reports social isolation 1.0 and social influence 0.0;
\* a matrix with partners reports isolation 1 - (average closeness + share of
\* partners with sentiment > 0) / 2, within [0, 1], and influence within [0, 1].
C23_IsolationAndInfluenceInRange ==
    LET isolation == calculate_social_isolation(relationships)
        influence == calculate_social_influence(relationships)
        partners == DOMAIN relationships
        closeness == [n \in partners |-> get_closeness(relationships[n])]
    IN IF partners = {}
       THEN isolation = Scale /\ influence = 0
       ELSE /\ isolation
                 = Scale - RoundDiv(RoundDiv(total_over(closeness, partners),
                                             Cardinality(partners))
                                    + RoundDiv(Cardinality(PositivePartners) * Scale,
                                               Cardinality(partners)), 2)
            /\ 0 <= isolation /\ isolation <= Scale
            /\ 0 <= influence /\ influence <= Scale

\* C23 witness: two partners, both with sentiment above 0 after an update.
C23_TwoLikedPartners ==
    /\ DOMAIN relationships = Partners
    /\ PositivePartners = Partners
    /\ calculate_social_isolation(relationships) < Scale \div 2

\* ------------------------------------------------------------------------
\* Repeated gains on one ExperienceLevels (SpecExperience)
\* ------------------------------------------------------------------------

\* Calls of gain_experience made on the tracker.
MaxGains == 4

LevelInputs == {0, 5000, 9500}

GainCategories == {"leadership", "survival"}

GainAmountInputs == {0, 1, 500, 7000, 20000}

\* experience = ExperienceLevels(leadership=l, survival=l)
InitExperience ==
    /\ memory = <<>>
    /\ persist = NoPersist
    /\ world = WorldState
    /\ \E l \in LevelInputs :
         Starts([FreshNPC(Archetypes.balanced_human, 0) EXCEPT
                    !.experience.levels =
                        [c \in Categories |->
                            IF c \in GainCategories THEN l ELSE 0]])
    /\ call = NoCall
    /\ steps = 0

\* experience.gain_experience(category, amount, "training")
GainExperienceAgain ==
    /\ steps < MaxGains
    /\ steps' = steps + 1
    /\ \E category \in GainCategories, amount \in GainAmountInputs :
         LET r == gain_experience(experience, category, amount, "training", TRUE)
         IN /\ experience' = r.e
            /\ call' = Call("gain_experience", "", category, amount, TRUE,
                            r.outcome, IF r.significant THEN "True" ELSE "False")
    /\ UNCHANGED <<world, memory, personality, trauma, relationships, physical, game,
                   persist>>

NextExperience == GainExperienceAgain

SpecExperience == InitExperience /\ [][NextExperience]_vars

SameFields(a, b) ==
    /\ [t \in Traits |-> a.personality[t]] = [t \in Traits |-> b.personality[t]]
    /\ a.experience = b.experience
    /\ a.trauma = b.trauma
    /\ a.relationships = b.relationships
    /\ a.physical = b.physical
    /\ a.game = b.game

\* C12: to_dict succeeds on every reachable NPCState, and from_dict of the
\* dict it returned gives an NPCState equal to the original field for field,
\* the histories, the memory list and the healing logs included.
C12_RoundTripIsFaithful ==
    /\ persist.stage /= "failed"
    /\ (persist.stage = "loaded" /\ persist.lost = "" /\ ~persist.touched)
         => /\ persist.outcome = "ok"
            /\ SameFields(persist.other, Self)

\* The scalar fields of NPCState and the defaults of its dataclass.
ScalarDefaults ==
    [age |-> DefaultAge, health |-> DefaultHealth,
     hunger_level |-> DefaultHunger, energy_level |-> DefaultEnergy,
     days_alive |-> 0]

\* C13: from_dict never fails because a field is absent from the record, and
\* an absent scalar field of the NPCState takes its default.
C13_MissingFieldTakesDefault ==
    persist.stage = "loaded"
      => /\ persist.outcome = "ok"
         /\ persist.lost \in DOMAIN ScalarDefaults
              => npc_to_dict(persist.other).data[persist.lost]
                   = ScalarDefaults[persist.lost]

\* C14: a call on the NPCState that from_dict returned changes nothing of
\* the NPCState whose to_dict made the record.
C14_CopyIsIndependent ==
    [][(persist.stage = "loaded" /\ ~persist.touched /\ persist'.touched)
          => UNCHANGED npc]_vars

\* ------------------------------------------------------------------------
\* Properties of days_alive and age (checked under SpecDays)
\* ------------------------------------------------------------------------

\* C20: every advance_day call adds exactly 1 to days_alive, and adds exactly
\* 1 to age on exactly the calls after which days_alive is a multiple of 365;
\* perform_action and interact_with_npc change neither; and for the NPCState
\* created with days_alive = 0, age = initial age + floor(days_alive / 365)
\* in every state.
C20_AgeCountsTheYears ==
    [][/\ call'.op = "advance_day"
            => /\ game'.days_alive = game.days_alive + 1
               /\ game'.age = game.age
                                + (IF game'.days_alive % 365 = 0 THEN 1 ELSE 0)
       /\ call'.op \in {"perform_action", "interact_with_npc"}
            => /\ game'.days_alive = game.days_alive
               /\ game'.age = game.age
       /\ game'.age = 25 + (game'.days_alive \div 365)]_vars

\* C20 witness: the second birthday has passed, a call other than
\* advance_day having been made on the way.
C20_SecondBirthday ==
    /\ call.op = "advance_day"
    /\ game.days_alive = 730
    /\ game.age = 27
    /\ steps = 1

\* ------------------------------------------------------------------------
\* Properties of gain_experience_from_action (checked under SpecLearning)
\* ------------------------------------------------------------------------

\* The categories an action maps to, and the base amount of one of them.
MappedCategories(action) ==
    {action_mappings(action)[k][1] : k \in 1..Len(action_mappings(action))}

BaseAmount(action, category) ==
    LET k == CHOOSE k \in 1..Len(action_mappings(action)) :
                action_mappings(action)[k][1] = category
    IN action_mappings(action)[k][2]

\* What gain(category, amount) makes of a level: min(1, level + amount * (1 -
\* 0.3 * level)).
LevelAfterGain(level, amount) ==
    LET target == level + Mul(amount, Scale - Mul(level, 3000))
    IN IF target > Scale THEN Scale ELSE target

\* The levels after gain_experience_from_action(action, success) on the
\* tracker of the current state.
LevelsAfter(action, success) ==
    gain_experience_from_action(experience, action, success).e.levels

C27_NoActionGainIsSignificant ==
    [][call'.op = "gain_experience_from_action" =>
         LET r == gain_experience_from_action(experience, call'.name,
                                              call'.success)
             before == Len(experience.experience_history)
         IN /\ \A c \in DOMAIN r.results : ~r.results[c]
            /\ experience' = r.e
            /\ \A k \in (before + 1)..Len(experience'.experience_history) :
                  experience'.experience_history[k].amount_gained
                      < significant_threshold]_vars

\* C27 witness: a successful challenge_leadership from level 0 has made the
\* largest gain of the table, 0.04 in leadership.
C27_LargestGainOfTheTable ==
    /\ call.op = "gain_experience_from_action"
    /\ call.name = "challenge_leadership"
    /\ call.success
    /\ \E k \in 1..Len(experience.experience_history) :
         /\ experience.experience_history[k].category = "leadership"
         /\ experience.experience_history[k].old_level = 0
         /\ experience.experience_history[k].amount_gained = 400

\* ------------------------------------------------------------------------
\* Properties of cast_vote (checked under SpecGovernance)
\* ------------------------------------------------------------------------

\* Every proposal's tallies add up to the number of its recorded voters.
TalliesMatchVoters(proposals) ==
    \A k \in 1..Len(proposals) :
        proposals[k].votes_for + proposals[k].votes_against
            + proposals[k].abstentions = Cardinality(proposals[k].voters)

\* C24: cast_vote by a voter already recorded on the proposal, or on an id no
\* proposal has, returns False and leaves every tally and voter set unchanged;
\* any other cast_vote returns True, records the voter on that proposal and
\* raises one tally of it by one; so after every call the tallies of each
\* proposal add up to the number of its recorded voters.
C24_EachVoterCountedOnce ==
    [][/\ call'.op = "cast_vote" =>
            LET proposals == world.governance.active_proposals
                after == world'.governance.active_proposals
                k == get_proposal(proposals, call'.name)
            IN IF k = 0 \/ call'.target \in proposals[k].voters
               THEN call'.ret = "False" /\ world' = world
               ELSE /\ call'.ret = "True"
                    /\ Len(after) = Len(proposals)
                    /\ \A j \in 1..Len(proposals) : j /= k => after[j] = proposals[j]
                    /\ after[k].voters = proposals[k].voters \cup {call'.target}
                    /\ after[k].votes_for + after[k].votes_against
                           + after[k].abstentions
                         = proposals[k].votes_for + proposals[k].votes_against
                           + proposals[k].abstentions + 1
       /\ TalliesMatchVoters(world'.governance.active_proposals)]_vars

\* C24 witness: a second vote of a recorded voter has been turned down on a
\* proposal that both voters have voted on.
C24_SecondVoteTurnedDown ==
    /\ call.op = "cast_vote"
    /\ call.ret = "False"
    /\ \E k \in 1..Len(world.governance.active_proposals) :
         LET proposal == world.governance.active_proposals[k]
         IN /\ proposal.id = call.name
            /\ proposal.voters = Voters
            /\ proposal.votes_for + proposal.votes_against
                  + proposal.abstentions = 2

\* ------------------------------------------------------------------------
\* Properties of add_social_event (checked under SpecClimate)
\* ------------------------------------------------------------------------

\* C25: after any number of add_social_event calls the log holds at most 50
\* events, and they are the most recently added ones in the order they were
\* added (the k-th event added carries the description k).
C25_LogKeepsTheLastFifty ==
    LET events == world.social_climate.recent_events
    IN /\ Len(events) = Min(steps, RecentEventsKept)
       /\ \A i \in 1..Len(events) :
            events[i].description = steps - Len(events) + i

\* C25 witness: 52 events were added; the log holds the 3rd to the 52nd.
C25_OldestEventsDropped ==
    /\ steps = 52
    /\ Len(world.social_climate.recent_events) = RecentEventsKept
    /\ world.social_climate.recent_events[1].description = 3

\* ------------------------------------------------------------------------
\* Properties of repeated healing (checked under SpecHealing)
\* ------------------------------------------------------------------------

\* The memory's current_impact is exactly its scar threshold.
AtScar == memory[1].current_impact = scar_threshold(memory[1])

\* The calls made are apply_healing with a strictly positive amount.
PositiveAmount == call.op = "apply_healing" /\ call.amount > 0

\* The calls made are apply_healing with an amount of at least half a unit,
\* which the subtraction does not round away.
UnabsorbedAmount == call.op = "apply_healing" /\ RoundDiv(call.amount, Finer) > 0

====
